---- MODULE Spec2Model ----
(***************************************************************************)
(* Daily Temperature Wave (Home Assistant custom component).               *)
(*                                                                         *)
(* A model of the temperature-wave engine: the value parser, the unit      *)
(* converter, the step quantizer, the solar clock, the sine wave and the   *)
(* sensors that publish point readings, forecasts and the visual frame.    *)
(*                                                                         *)
(* Numbers.  Python floats are modelled as exact rationals <<n, d>> in     *)
(* lowest terms with d > 0 (real arithmetic, no binary rounding); the      *)
(* non-finite floats are <<1, 0>> (inf), <<-1, 0>> (-inf) and <<0, 0>>     *)
(* (nan).  Strings are sequences of one-character strings.                 *)
(*                                                                         *)
(* A value that a Python function computes once and reads several times    *)
(* is passed on as the argument of a continuation operator (named ..K).    *)
(***************************************************************************)
EXTENDS Integers, Sequences, FiniteSets, TLC

----------------------------------------------------------------------------
(* Exact rational arithmetic standing for Python float arithmetic.         *)

Abs(x) == IF x < 0 THEN -x ELSE x

RECURSIVE GCD(_, _)
GCD(a, b) == IF b = 0 THEN a ELSE GCD(b, a % b)

\* n/d reduced by the common factor g > 0, the sign carried by the numerator.
Reduce(n, d, g) == IF d < 0 THEN <<(-n) \div g, (-d) \div g>> ELSE <<n \div g, d \div g>>

\* The rational n/d (d # 0) in lowest terms with a positive denominator.
Rat(n, d) == Reduce(n, d, GCD(Abs(n), Abs(d)))

Int2R(i) == <<i, 1>>
RNan == <<0, 0>>

\* Sums, products and comparisons cancel common factors before they multiply,
\* so that intermediate values stay as small as the results.
RAddK(x, y, g) == Rat(x[1] * (y[2] \div g) + y[1] * (x[2] \div g), (x[2] \div g) * y[2])
RAdd(x, y) == RAddK(x, y, GCD(x[2], y[2]))
RNeg(x) == <<-x[1], x[2]>>
RSub(x, y) == RAddK(x, <<-y[1], y[2]>>, GCD(x[2], y[2]))
RMulK(x, y, g1, g2) ==
    IF x[1] = 0 \/ y[1] = 0 THEN <<0, 1>>
    ELSE <<(x[1] \div g1) * (y[1] \div g2), (x[2] \div g2) * (y[2] \div g1)>>
RMul(x, y) == RMulK(x, y, GCD(Abs(x[1]), y[2]), GCD(Abs(y[1]), x[2]))
\* 1 / y for y # 0.
RInv(y) == IF y[1] < 0 THEN <<-y[2], -y[1]>> ELSE <<y[2], y[1]>>
\* x / y for y # 0 (the callers test for the ZeroDivisionError first).
RDiv(x, y) == RMul(x, RInv(y))
RLtK(x, y, g) == x[1] * (y[2] \div g) < y[1] * (x[2] \div g)
RLt(x, y) == RLtK(x, y, GCD(x[2], y[2]))
RLeK(x, y, g) == x[1] * (y[2] \div g) <= y[1] * (x[2] \div g)
RLe(x, y) == RLeK(x, y, GCD(x[2], y[2]))
RIsZero(x) == x[1] = 0 /\ x[2] # 0
RIsInt(x) == x[2] = 1

\* Comparisons with an integer, which need no common denominator.
RLtInt(x, i) == x[1] < i * x[2]
RGtInt(x, i) == x[1] > i * x[2]
RLeInt(x, i) == x[1] <= i * x[2]
RGeInt(x, i) == x[1] >= i * x[2]
\* x + i, x * i and x / i for an integer i (i # 0 for the division).
RAddInt(x, i) == <<x[1] + i * x[2], x[2]>>
RMulInt(x, i) == Rat(x[1] * i, x[2])
RDivInt(x, i) == Rat(x[1], x[2] * i)

\* floor(x) as an integer.
RFloor(x) == x[1] \div x[2]

\* Rounding f + r/d (0 <= r < d) to the nearest integer, a tie to the even one.
PyRoundK(f, r, d) ==
    IF 2 * r < d THEN f
    ELSE IF 2 * r > d THEN f + 1
    ELSE IF f % 2 = 0 THEN f ELSE f + 1
\* Python's round(x): the nearest integer, an exact tie going to the even one.
PyRound(x) == PyRoundK(x[1] \div x[2], x[1] % x[2], x[2])

\* Python's round(x, ndigits) with 10^ndigits = p: the whole part is kept and
\* the fractional part alone is scaled and rounded.
PyRoundTo(x, p) ==
    Rat((x[1] \div x[2]) * p + PyRound(RMulInt(<<x[1] % x[2], x[2]>>, p)), p)

----------------------------------------------------------------------------
(* Strings and the Python conversions float(str) and int(str).             *)

Digits == {"0", "1", "2", "3", "4", "5", "6", "7", "8", "9"}
DigitVal(c) ==
    CASE c = "0" -> 0 [] c = "1" -> 1 [] c = "2" -> 2 [] c = "3" -> 3
      [] c = "4" -> 4 [] c = "5" -> 5 [] c = "6" -> 6 [] c = "7" -> 7
      [] c = "8" -> 8 [] c = "9" -> 9
Whitespace == {" ", "\t", "\n"}

\* str.upper() on one character (the letters the model's literals use).
UpperChar(c) ==
    CASE c = "a" -> "A" [] c = "b" -> "B" [] c = "c" -> "C" [] c = "e" -> "E"
      [] c = "f" -> "F" [] c = "i" -> "I" [] c = "n" -> "N" [] c = "t" -> "T"
      [] c = "y" -> "Y"
      [] OTHER -> c
Upper(s) == [i \in 1..Len(s) |-> UpperChar(s[i])]

RECURSIVE LStrip(_)
LStrip(s) == IF s # <<>> /\ Head(s) \in Whitespace THEN LStrip(Tail(s)) ELSE s
RECURSIVE RStrip(_)
RStrip(s) ==
    IF s # <<>> /\ s[Len(s)] \in Whitespace THEN RStrip(SubSeq(s, 1, Len(s) - 1)) ELSE s
\* str.strip()
Strip(s) == LStrip(RStrip(s))

\* str.endswith(c) for a one-character suffix.
EndsWith(s, c) == s # <<>> /\ s[Len(s)] = c
\* s[:-1]
DropLast(s) == SubSeq(s, 1, Len(s) - 1)

\* The position of the first occurrence of c in s, or 0.
RECURSIVE IndexFrom(_, _, _)
IndexFrom(s, c, i) ==
    IF i > Len(s) THEN 0 ELSE IF s[i] = c THEN i ELSE IndexFrom(s, c, i + 1)
IndexOf(s, c) == IndexFrom(s, c, 1)
\* The parts of s before and after position i; all of s and nothing when i = 0.
Before(s, i) == IF i = 0 THEN s ELSE SubSeq(s, 1, i - 1)
After(s, i) == IF i = 0 THEN <<>> ELSE SubSeq(s, i + 1, Len(s))

\* str.split(c): the pieces of s between the occurrences of c.
RECURSIVE Split(_, _)
SplitAt(s, c, i) ==
    IF i = 0 THEN <<s>> ELSE <<SubSeq(s, 1, i - 1)>> \o Split(SubSeq(s, i + 1, Len(s)), c)
Split(s, c) == SplitAt(s, c, IndexOf(s, c))

\* A digitpart of the Python grammar: digits, single underscores allowed between.
IsDigitPart(s) ==
    /\ s # <<>>
    /\ \A i \in 1..Len(s) : s[i] \in Digits \/ s[i] = "_"
    /\ s[1] \in Digits /\ s[Len(s)] \in Digits
    /\ \A i \in 1..(Len(s) - 1) : ~(s[i] = "_" /\ s[i + 1] = "_")

RECURSIVE DigitsValue(_, _)
DigitsValue(s, acc) ==
    IF s = <<>> THEN acc
    ELSE IF Head(s) = "_" THEN DigitsValue(Tail(s), acc)
    ELSE DigitsValue(Tail(s), 10 * acc + DigitVal(Head(s)))

RECURSIVE CountDigits(_)
CountDigits(s) ==
    IF s = <<>> THEN 0
    ELSE (IF Head(s) \in Digits THEN 1 ELSE 0) + CountDigits(Tail(s))

RECURSIVE Pow10(_)
Pow10(k) == IF k = 0 THEN 1 ELSE 10 * Pow10(k - 1)

\* An optional sign: <<sign, rest>>.
SignOf(s) ==
    IF s # <<>> /\ Head(s) = "-" THEN <<-1, Tail(s)>>
    ELSE IF s # <<>> /\ Head(s) = "+" THEN <<1, Tail(s)>>
    ELSE <<1, s>>

\* Python int(str): surrounding whitespace, an optional sign, a digitpart.
\* [exc |-> "" or "ValueError", val |-> the integer]
PyIntK(sg) ==
    IF IsDigitPart(sg[2]) THEN [exc |-> "", val |-> sg[1] * DigitsValue(sg[2], 0)]
    ELSE [exc |-> "ValueError", val |-> 0]
PyInt(str) == PyIntK(SignOf(Strip(str)))

\* The mantissa of a float literal, its parts before and after the point:
\* [digitpart] ["." [digitpart]] with at least one digit.
MantissaOkK(ip, fp) ==
    /\ ip = <<>> \/ IsDigitPart(ip)
    /\ fp = <<>> \/ IsDigitPart(fp)
    /\ ip # <<>> \/ fp # <<>>
MantissaValueK(ip, fp) ==
    RAdd(Int2R(DigitsValue(ip, 0)), Rat(DigitsValue(fp, 0), Pow10(CountDigits(fp))))

\* The exponent of a float literal after its "E", split into <<sign, rest>>.
ExponentValueK(sg) == sg[1] * DigitsValue(sg[2], 0)

\* sign * mv * 10^ev
FloatValue(sign, mv, ev) ==
    IF ev >= 0 THEN RMulInt(mv, sign * Pow10(ev))
    ELSE RMul(mv, Rat(sign, Pow10(-ev)))

\* The float literal of mantissa ip "." fp and exponent part xs = <<sign, digits>>
\* (hasExp tells whether an "E" was there).
PyFloatDecimal(sign, ip, fp, hasExp, xs) ==
    IF MantissaOkK(ip, fp) /\ (~hasExp \/ IsDigitPart(xs[2]))
    THEN [exc |-> "",
          val |-> FloatValue(sign, MantissaValueK(ip, fp),
                             IF hasExp THEN ExponentValueK(xs) ELSE 0)]
    ELSE [exc |-> "ValueError", val |-> RNan]

PyFloatSplit(sign, m, dot, hasExp, xs) ==
    PyFloatDecimal(sign, Before(m, dot), After(m, dot), hasExp, xs)

PyFloatBody(sign, body, e) ==
    IF body = <<"I", "N", "F">> \/ body = <<"I", "N", "F", "I", "N", "I", "T", "Y">>
    THEN [exc |-> "", val |-> <<sign, 0>>]
    ELSE IF body = <<"N", "A", "N">>
    THEN [exc |-> "", val |-> RNan]
    ELSE PyFloatSplit(sign, Before(body, e), IndexOf(Before(body, e), "."),
                      e # 0, SignOf(After(body, e)))

PyFloatSigned(sg) == PyFloatBody(sg[1], sg[2], IndexOf(sg[2], "E"))

\* Python float(str): surrounding whitespace, an optional sign, then inf,
\* infinity or nan in any case, or a decimal literal with an optional exponent.
\* [exc |-> "" or "ValueError", val |-> the number]
PyFloat(str) == PyFloatSigned(SignOf(Upper(Strip(str))))

----------------------------------------------------------------------------
(* utils/temperature.py                                                    *)

\* Python values that reach the parsers: a string, a number, or None.
PyStr(s) == [t |-> "str", s |-> s, v |-> RNan]
PyNum(v) == [t |-> "num", s |-> <<>>, v |-> v]
PyNone == [t |-> "none", s |-> <<>>, v |-> RNan]

\* str.upper() of the short unit strings, which the code only compares.
UpperUnit(u) ==
    CASE u = "c" -> "C" [] u = "f" -> "F"
      [] u = "metric" -> "METRIC" [] u = "imperial" -> "IMPERIAL"
      [] OTHER -> u

\* The (value, unit) pair of a parsed literal, or the float() error.
ParsedAs(f, unit) ==
    IF f.exc # "" THEN [exc |-> f.exc, val |-> RNan, unit |-> ""]
    ELSE [exc |-> "", val |-> f.val, unit |-> unit]

\* The string branch of parse_temperature_value, value_str stripped and uppercased.
parse_temperature_str(value_str) ==
    IF EndsWith(value_str, "F") THEN ParsedAs(PyFloat(DropLast(value_str)), "F")
    ELSE IF EndsWith(value_str, "C") THEN ParsedAs(PyFloat(DropLast(value_str)), "C")
    ELSE ParsedAs(PyFloat(value_str), "C")

\* parse_temperature_value without str.upper(): the suffix is looked for in
\* the stripped string as it was written.
parse_temperature_value_cased(value) ==
    IF value.t = "num" THEN [exc |-> "", val |-> value.v, unit |-> "C"]
    ELSE IF value.t # "str" THEN [exc |-> "ValueError", val |-> RNan, unit |-> ""]
    ELSE parse_temperature_str(Strip(value.s))

\* parse_temperature_value(value) -> (numeric_value, unit), or raises ValueError.
parse_temperature_value(value) ==
    IF value.t = "num" THEN [exc |-> "", val |-> value.v, unit |-> "C"]
    ELSE IF value.t # "str" THEN [exc |-> "ValueError", val |-> RNan, unit |-> ""]
    ELSE parse_temperature_str(Upper(Strip(value.s)))

\* parse_step_resolution(step_resolution)
parse_step_resolution(step_resolution) == parse_temperature_value(step_resolution)

\* convert_to_celsius(value, unit)
convert_to_celsius(value, unit) ==
    IF UpperUnit(unit) = "F"
    THEN RDivInt(RMulInt(RAddInt(value, -32), 5), 9)
    ELSE value

\* convert_from_celsius(value, target_unit)
convert_from_celsius(value, target_unit) ==
    IF UpperUnit(target_unit) = "F"
    THEN RAddInt(RDivInt(RMulInt(value, 9), 5), 32)
    ELSE value

\* round_to_step with the quotient rounded half up, floor(value / step + 1/2),
\* instead of to the even neighbour.
round_to_step_half_up(value, step) ==
    IF RLeInt(step, 0) THEN value
    ELSE RMulInt(step, RFloor(RAdd(RDiv(value, step), Rat(1, 2))))

\* round_to_step(value, step)
round_to_step(value, step) ==
    IF RLeInt(step, 0) THEN value
    ELSE RMulInt(step, PyRound(RDiv(value, step)))

\* get_unit_symbol(unit): the display glyph.
get_unit_symbol(unit) == IF UpperUnit(unit) = "F" THEN "°F" ELSE "°C"

----------------------------------------------------------------------------
(* utils/solar.py                                                          *)

\* datetime.time(hour, minute); only the hour and the minute are ever read.
Time(h, m) == [hour |-> h, minute |-> m]

\* The wall clock is a count of minutes; datetime.now().time() of it.
TimeOfDay(instant) == Time((instant % 1440) \div 60, instant % 60)

\* An attribute of the sun.sun entity: absent, a string that is no ISO
\* timestamp, or a timestamp (the instant it denotes, in minutes).
AttrNone == [t |-> "none", m |-> 0]
AttrBad == [t |-> "bad", m |-> 0]
AttrAt(m) == [t |-> "ts", m |-> m]

\* An exception raised inside the override branch of get_solar_noon.
OverrideFail(e) == [exc |-> e, time |-> Time(0, 0)]

\* time(hour, minute) of the two int() results.
override_time(hour, minute) ==
    IF hour.exc # "" \/ minute.exc # "" THEN OverrideFail("ValueError")
    ELSE IF hour.val \notin 0..23 \/ minute.val \notin 0..59 THEN OverrideFail("ValueError")
    ELSE [exc |-> "", time |-> Time(hour.val, minute.val)]

\* hour, minute = map(int, parts): exactly two pieces unpack.
override_unpack(parts) ==
    IF Len(parts) # 2 THEN OverrideFail("ValueError")
    ELSE override_time(PyInt(parts[1]), PyInt(parts[2]))

\* The override branch of get_solar_noon: int() of both pieces of
\* override.split(":") and time(hour, minute); any failure is a ValueError
\* (or, for a value that is no string, an AttributeError), caught by the caller.
\* [exc, time]
parse_override(solar_noon_override) ==
    IF solar_noon_override.t # "str" THEN OverrideFail("AttributeError")
    ELSE override_unpack(Split(solar_noon_override.s, ":"))

\* Python truthiness of the override: None and "" are false.
Truthy(value) ==
    \/ value.t = "str" /\ value.s # <<>>
    \/ value.t = "num" /\ ~RIsZero(value.v)

\* sun_midpoint without the halving: next_rising plus the whole difference,
\* which is next_setting.
sun_midpoint_unhalved(setting_time, rising_time) ==
    TimeOfDay(rising_time + (setting_time - rising_time))

\* rising_time + (setting_time - rising_time) / 2, then .time()
sun_midpoint(setting_time, rising_time) ==
    TimeOfDay((2 * rising_time + (setting_time - rising_time)) \div 2)

\* The sun-integration branch of get_solar_noon, inside its try block:
\* [exc, found, time].  It returns nothing (found is FALSE) when a condition
\* fails, and raises when states.get raises or when fromisoformat rejects a
\* timestamp.
sun_branch(sun_entity) ==
    IF sun_entity.state = "raise"
    THEN [exc |-> "RuntimeError", found |-> FALSE, time |-> Time(0, 0)]
    ELSE IF sun_entity.state # "above_horizon"
    THEN [exc |-> "", found |-> FALSE, time |-> Time(0, 0)]
    ELSE IF sun_entity.next_setting.t = "none" \/ sun_entity.next_rising.t = "none"
    THEN [exc |-> "", found |-> FALSE, time |-> Time(0, 0)]
    ELSE IF sun_entity.next_setting.t = "bad" \/ sun_entity.next_rising.t = "bad"
    THEN [exc |-> "ValueError", found |-> FALSE, time |-> Time(0, 0)]
    ELSE [exc |-> "", found |-> TRUE,
          time |-> sun_midpoint(sun_entity.next_setting.m, sun_entity.next_rising.m)]

\* "except Exception" around the sun branch, and the fallback to wall clock
\* noon after it: [exc, time].
sun_or_fallback(b) ==
    IF b.exc = "" /\ b.found THEN [exc |-> "", time |-> b.time]
    ELSE [exc |-> "", time |-> Time(12, 0)]

solar_noon_from_sun(sun_entity) == sun_or_fallback(sun_branch(sun_entity))

\* noon_after_override with an except clause that names AttributeError alone,
\* so that a ValueError of the override branch leaves the function.
noon_after_override_narrow(o, sun_entity) ==
    IF o.exc = "" THEN [exc |-> "", time |-> o.time]
    ELSE IF o.exc = "AttributeError" THEN solar_noon_from_sun(sun_entity)
    ELSE [exc |-> o.exc, time |-> Time(0, 0)]

\* "except (ValueError, AttributeError)" around the override branch: the
\* override's time if it parsed, the sun branch if one of the two was raised,
\* and any other exception leaves the function.
noon_after_override(o, sun_entity) ==
    IF o.exc = "" THEN [exc |-> "", time |-> o.time]
    ELSE IF o.exc \in {"ValueError", "AttributeError"} THEN solar_noon_from_sun(sun_entity)
    ELSE [exc |-> o.exc, time |-> Time(0, 0)]

\* The sun's midpoint if there is one, else the override's time if it parsed.
sun_before_override(b, o) ==
    IF b.exc = "" /\ b.found THEN [exc |-> "", time |-> b.time]
    ELSE IF o.exc = "" THEN [exc |-> "", time |-> o.time]
    ELSE [exc |-> "", time |-> Time(12, 0)]

\* get_solar_noon with its two branches in the other order: the sun
\* integration is asked first and the override only when it gives nothing.
get_solar_noon_sun_first(sun_entity, solar_noon_override) ==
    IF Truthy(solar_noon_override)
    THEN sun_before_override(sun_branch(sun_entity), parse_override(solar_noon_override))
    ELSE solar_noon_from_sun(sun_entity)

\* get_solar_noon(hass, solar_noon_override): [exc, time], exc the exception
\* that leaves the function, if any.
get_solar_noon(sun_entity, solar_noon_override) ==
    IF Truthy(solar_noon_override)
    THEN noon_after_override(parse_override(solar_noon_override), sun_entity)
    ELSE solar_noon_from_sun(sun_entity)

\* hour + minute / 60 of a time of day.
HoursOf(t) == Rat(60 * t.hour + t.minute, 60)

\* normalize_hours without its second branch: offsets below -12 stay.
normalize_hours_upper_only(hours_from_noon) ==
    IF RGtInt(hours_from_noon, 12) THEN RAddInt(hours_from_noon, -24)
    ELSE hours_from_noon

\* The normalisation of an offset into -12 .. +12.
normalize_hours(hours_from_noon) ==
    IF RGtInt(hours_from_noon, 12) THEN RAddInt(hours_from_noon, -24)
    ELSE IF RLtInt(hours_from_noon, -12) THEN RAddInt(hours_from_noon, 24)
    ELSE hours_from_noon

\* get_current_solar_position(hass, solar_noon), the clock reading hass_now.
get_current_solar_position(hass_now, solar_noon) ==
    normalize_hours(RSub(HoursOf(TimeOfDay(hass_now)), HoursOf(solar_noon)))

\* rising_window with both comparisons strict, so that neither end of the
\* window counts as rising.
rising_window_open(hours_from_noon, half) ==
    RLt(RNeg(half), hours_from_noon) /\ RLt(hours_from_noon, half)

\* -effective_period / 2 <= hours_from_noon <= effective_period / 2
rising_window(hours_from_noon, half) ==
    RLe(RNeg(half), hours_from_noon) /\ RLe(hours_from_noon, half)

\* is_temperature_rising(hass, solar_noon, wave_spread)
is_temperature_rising(hass_now, solar_noon, wave_spread) ==
    rising_window(get_current_solar_position(hass_now, solar_noon),
                  RDivInt(RMulInt(wave_spread, 12), 2))

----------------------------------------------------------------------------
(* math.sin                                                                *)

\* sin(pi * v) for 0 <= v <= 1/2.  The sine of a rational multiple of pi is
\* rational only where it is 0, 1/2 or 1 (v = 0, 1/6, 1/2); the model takes
\* these values exactly and joins them by straight lines, so it is increasing
\* and orders any two angles of the quarter turn as the sine does.
SinQuarterTurn(v) ==
    IF RLe(v, Rat(1, 6)) THEN RMulInt(v, 3)
    ELSE RDivInt(RAddInt(RMulInt(v, 6), 1), 4)

\* sin(pi * u) for 0 <= u <= 1: sin(pi (1 - u)) = sin(pi u).
SinHalfTurn(u) ==
    IF RLe(u, Rat(1, 2)) THEN SinQuarterTurn(u)
    ELSE SinQuarterTurn(RSub(Int2R(1), u))

\* sin(pi * u) for 0 <= u < 2: sin(pi (u + 1)) = -sin(pi u).
SinFullTurn(u) ==
    IF RLeInt(u, 1) THEN SinHalfTurn(u)
    ELSE RNeg(SinHalfTurn(RAddInt(u, -1)))

\* math.sin(math.pi * r) for any rational r: the sine has period 2 in r.
SinPi(r) == SinFullTurn(RAddInt(r, -2 * RFloor(RDivInt(r, 2))))

----------------------------------------------------------------------------
(* sensor.py: DailyTemperatureWaveSensor                                   *)

SENSOR_CURRENT == "current"
SENSOR_CURRENT_STEP == "current_step"
SENSOR_FORECAST_24H == "forecast_24h"
SENSOR_FORECAST_24H_STEP == "forecast_24h_step"
SENSOR_FORECAST_7D == "forecast_7d"
SENSOR_FORECAST_7D_STEP == "forecast_7d_step"
SENSOR_VISUAL == "visual"

\* The keys of SENSOR_DESCRIPTIONS.
SENSOR_DESCRIPTIONS ==
    {SENSOR_CURRENT, SENSOR_CURRENT_STEP, SENSOR_FORECAST_24H, SENSOR_FORECAST_24H_STEP,
     SENSOR_FORECAST_7D, SENSOR_FORECAST_7D_STEP, SENSOR_VISUAL}

Ok(v) == [exc |-> "", val |-> v]
Exc(e) == [exc |-> e, val |-> RNan]

\* wave_value with the sine shifted into 0 .. 2 and not halved.
wave_value_unhalved(min_temp_c, max_temp_c, sine_value) ==
    RAdd(min_temp_c, RMul(RSub(max_temp_c, min_temp_c), RAddInt(sine_value, 1)))

\* wave_value without the mapping of the sine into 0 .. 1.
wave_value_unmapped(min_temp_c, max_temp_c, sine_value) ==
    RAdd(min_temp_c, RMul(RSub(max_temp_c, min_temp_c), sine_value))

\*   temp_normalized = (sine_value + 1) / 2
\*   temp_c = self._min_temp_c + (self._max_temp_c - self._min_temp_c) * temp_normalized
wave_value(min_temp_c, max_temp_c, sine_value) ==
    RAdd(min_temp_c, RMul(RSub(max_temp_c, min_temp_c), RDivInt(RAddInt(sine_value, 1), 2)))

\* wave_temp_c with the offset multiplied by the spread instead of divided
\* by it: sin(pi * hours_from_noon * wave_spread / 12).
wave_temp_c_compressed(self, hours_from_noon) ==
    IF RIsZero(self.wave_spread) THEN Exc("ZeroDivisionError")
    ELSE Ok(wave_value(self.min_temp_c, self.max_temp_c,
                       SinPi(RDivInt(RMul(hours_from_noon, self.wave_spread), 12))))

\* The wave arithmetic every sensor path repeats, from
\*   sine_value = math.sin(math.pi * hours_from_noon / (12 * self._wave_spread))
\* on.  A wave spread of 0 makes the division raise ZeroDivisionError.
wave_temp_c(self, hours_from_noon) ==
    IF RIsZero(self.wave_spread) THEN Exc("ZeroDivisionError")
    ELSE Ok(wave_value(self.min_temp_c, self.max_temp_c,
                       SinPi(RDiv(hours_from_noon, RMulInt(self.wave_spread, 12)))))

\* "Apply stepwise rounding if needed"
apply_step(self, temp_c, stepwise) ==
    IF stepwise
    THEN round_to_step(temp_c, convert_to_celsius(self.step_resolution, self.step_unit))
    ELSE temp_c

\* "Convert to display units" of the wave's result w, stepped if asked.
display_temperature(self, w, stepwise) ==
    IF w.exc # "" THEN w
    ELSE Ok(convert_from_celsius(apply_step(self, w.val, stepwise), self.unit_system))

\* The temperature the sensor paths compute for one offset from noon, in
\* display units: wave, optional step, convert_from_celsius(., unit_system).
temperature_at(self, hours_from_noon, stepwise) ==
    display_temperature(self, wave_temp_c(self, hours_from_noon), stepwise)

\* _calculate_current_temperature(self, hass, solar_noon, stepwise)
calculate_current_temperature(self, hass_now, solar_noon, stepwise) ==
    temperature_at(self, get_current_solar_position(hass_now, solar_noon), stepwise)

\* A key of config_entry.data that is not set, and dict.get(key, default).
PyAbsent == [t |-> "absent", s |-> <<>>, v |-> RNan]
ConfigGet(value, default) == IF value.t = "absent" THEN default ELSE value

DEFAULT_MIN_TEMP == PyStr(<<"2", "0", "C">>)
DEFAULT_MAX_TEMP == PyStr(<<"3", "0", "C">>)
DEFAULT_STEP_RESOLUTION == PyStr(<<"1", "F">>)
DEFAULT_WAVE_SPREAD == PyNum(Int2R(1))

NoSensor == [exists |-> FALSE]

\* The fields __init__ sets from the parsed settings.
sensor_object(config, key, min_p, max_p, step_p, unit_system) ==
    [exists |-> TRUE,
     key |-> key,
     config |-> config,
     min_temp_c |-> min_p.val,
     min_temp_unit |-> min_p.unit,
     max_temp_c |-> max_p.val,
     max_temp_unit |-> max_p.unit,
     step_resolution |-> step_p.val,
     step_unit |-> step_p.unit,
     wave_spread |-> ConfigGet(config.wave_spread, DEFAULT_WAVE_SPREAD).v,
     unit_system |-> unit_system,
     solar_noon_override |-> ConfigGet(config.solar_noon_override, PyNone),
     native_unit_of_measurement |->
         get_unit_symbol(IF unit_system # "" THEN UpperUnit(unit_system) ELSE "C"),
     native_value |-> [kind |-> "none"]]

\* __init__ after its three parser calls: the first that raised ends it.
sensor_parsed(config, key, min_p, max_p, step_p) ==
    IF min_p.exc # "" THEN [exc |-> min_p.exc, obj |-> NoSensor]
    ELSE IF max_p.exc # "" THEN [exc |-> max_p.exc, obj |-> NoSensor]
    ELSE IF step_p.exc # "" THEN [exc |-> step_p.exc, obj |-> NoSensor]
    ELSE [exc |-> "",
          obj |-> sensor_object(config, key, min_p, max_p, step_p,
                                IF config.unit_system = "absent" THEN "metric"
                                ELSE config.unit_system)]

\* DailyTemperatureWaveSensor.__init__(config_entry, description).
\* [exc, obj]: a literal the parser rejects makes the constructor raise.
sensor_init(config, key) ==
    sensor_parsed(config, key,
        parse_temperature_value(ConfigGet(config.min_temp, DEFAULT_MIN_TEMP)),
        parse_temperature_value(ConfigGet(config.max_temp, DEFAULT_MAX_TEMP)),
        parse_step_resolution(ConfigGet(config.step_resolution, DEFAULT_STEP_RESOLUTION)))

\* forecast_hours_from_noon without the normalisation into -12..12.
forecast_hours_from_noon_raw(hass_now, solar_noon, hour) ==
    RSub(HoursOf(TimeOfDay(hass_now + 60 * hour)), HoursOf(solar_noon))

\* The offset from solar noon of the forecast sample `hour` hours after now,
\* normalised for that sample (the loop of _generate_24h_forecast, which
\* repeats the arithmetic of get_current_solar_position).
forecast_hours_from_noon(hass_now, solar_noon, hour) ==
    normalize_hours(RSub(HoursOf(TimeOfDay(hass_now + 60 * hour)), HoursOf(solar_noon)))

\* One record of the 24h forecast (time is the instant, which the code prints
\* in ISO form).
forecast_sample(self, forecast_time, hours_from_noon, stepwise) ==
    [time |-> forecast_time,
     temperature |-> PyRoundTo(temperature_at(self, hours_from_noon, stepwise).val, 10),
     hours_from_noon |-> PyRoundTo(hours_from_noon, 100)]

\* _generate_24h_forecast(self, hass, solar_noon, stepwise): [exc, val], val the
\* list of 24 records.
generate_24h_forecast(self, hass_now, solar_noon, stepwise) ==
    IF RIsZero(self.wave_spread) THEN [exc |-> "ZeroDivisionError", val |-> <<>>]
    ELSE [exc |-> "",
          val |-> [k \in 1..24 |->
                      forecast_sample(self, hass_now + 60 * (k - 1),
                          forecast_hours_from_noon(hass_now, solar_noon, k - 1),
                          stepwise)]]

\* One record of the 7d forecast from the day's two Celsius temperatures (date
\* is the day number of now + day days, day_of_week that number modulo 7).
forecast_day(self, forecast_date, temp_c_min, temp_c_max, stepwise) ==
    [date |-> forecast_date \div 1440,
     min |-> PyRoundTo(convert_from_celsius(apply_step(self, temp_c_min, stepwise),
                                            self.unit_system), 10),
     max |-> PyRoundTo(convert_from_celsius(apply_step(self, temp_c_max, stepwise),
                                            self.unit_system), 10),
     day_of_week |-> (forecast_date \div 1440) % 7]

\* _generate_7d_forecast(self, hass, solar_noon, stepwise): [exc, val], val the
\* list of 7 records.  The day's "min" is the wave at
\* math.sin(math.pi * 12 / (12 * self._wave_spread)), its "max" the wave at
\* math.sin(0).
generate_7d_forecast(self, hass_now, stepwise) ==
    IF RIsZero(self.wave_spread) THEN [exc |-> "ZeroDivisionError", val |-> <<>>]
    ELSE [exc |-> "",
          val |-> [k \in 1..7 |->
                      forecast_day(self, hass_now + 1440 * (k - 1),
                          wave_value(self.min_temp_c, self.max_temp_c,
                              SinPi(RDiv(Int2R(12), RMulInt(self.wave_spread, 12)))),
                          wave_value(self.min_temp_c, self.max_temp_c, SinPi(Int2R(0))),
                          stepwise)]]

\* visual_y of the temperature converted to Fahrenheit, scaled against the
\* stored limits.
visual_y_fahrenheit(self, temp_display) ==
    RSub(Int2R(100),
         RDiv(RMulInt(RSub(convert_from_celsius(temp_display, "F"), self.min_temp_c), 100),
              RSub(self.max_temp_c, self.min_temp_c)))

\* The scaling of a display temperature into the 0-100 range of the frame:
\* 100 - (temp - min) * 100 / (max - min).
visual_y(self, temp_display) ==
    RSub(Int2R(100),
         RDiv(RMulInt(RSub(temp_display, self.min_temp_c), 100),
              RSub(self.max_temp_c, self.min_temp_c)))

\* One point of the curve of the frame.
visual_point(self, hour, temp_display) ==
    [x |-> hour * 10,
     y |-> visual_y(self, temp_display),
     temp |-> PyRoundTo(temp_display, 10)]

\* The marker of the current position of the frame.
visual_current(self, current_hours_from_noon, current_temp) ==
    [x |-> RMulInt(RAddInt(current_hours_from_noon, 12), 10),
     y |-> visual_y(self, current_temp),
     temp |-> PyRoundTo(current_temp, 10),
     hours_from_noon |-> PyRoundTo(current_hours_from_noon, 10)]

\* _generate_visual_data(self, hass, solar_noon): [exc, val].  The clock is read
\* twice, by get_current_solar_position (now1) and then inside
\* _calculate_current_temperature (now2).  A zero wave spread or an empty
\* temperature range makes the first point raise ZeroDivisionError.
generate_visual_data(self, now1, now2, solar_noon) ==
    IF RIsZero(self.wave_spread) \/ self.max_temp_c = self.min_temp_c
    THEN [exc |-> "ZeroDivisionError", val |-> <<>>]
    ELSE [exc |-> "",
          val |-> [points |->
                       [i \in 1..25 |->
                           visual_point(self, i - 1,
                               temperature_at(self, Int2R(i - 13), FALSE).val)],
                   current_position |->
                       visual_current(self,
                           get_current_solar_position(now1, solar_noon),
                           calculate_current_temperature(self, now2, solar_noon, FALSE).val),
                   solar_noon |-> [hour |-> solar_noon.hour, minute |-> solar_noon.minute],
                   temperature_range |-> [min |-> self.min_temp_c,
                                          max |-> self.max_temp_c,
                                          unit |-> self.unit_system]]]

\* What async_update computes for the sensor's description: [exc, val].
Float(r) == [exc |-> r.exc, val |-> [kind |-> "float", val |-> r.val]]
Json(k, r) == [exc |-> r.exc, val |-> [kind |-> k, val |-> r.val]]
update_value(self, now1, now2, solar_noon) ==
    CASE self.key = SENSOR_CURRENT ->
           Float(calculate_current_temperature(self, now1, solar_noon, FALSE))
      [] self.key = SENSOR_CURRENT_STEP ->
           Float(calculate_current_temperature(self, now1, solar_noon, TRUE))
      [] self.key = SENSOR_FORECAST_24H ->
           Json("forecast_24h", generate_24h_forecast(self, now1, solar_noon, FALSE))
      [] self.key = SENSOR_FORECAST_24H_STEP ->
           Json("forecast_24h", generate_24h_forecast(self, now1, solar_noon, TRUE))
      [] self.key = SENSOR_FORECAST_7D ->
           Json("forecast_7d", generate_7d_forecast(self, now1, FALSE))
      [] self.key = SENSOR_FORECAST_7D_STEP ->
           Json("forecast_7d", generate_7d_forecast(self, now1, TRUE))
      [] self.key = SENSOR_VISUAL ->
           Json("visual", generate_visual_data(self, now1, now2, solar_noon))

----------------------------------------------------------------------------
(* config_flow.py                                                          *)

\* The code point of a character (those of the model's literals).
Ord(c) ==
    CASE c = " " -> 32 [] c = "-" -> 45 [] c = "." -> 46 [] c = ":" -> 58
      [] c \in Digits -> 48 + DigitVal(c)
      [] c = "C" -> 67 [] c = "F" -> 70
      [] c = "a" -> 97 [] c = "b" -> 98 [] c = "c" -> 99 [] c = "f" -> 102
      [] c = "x" -> 120
\* Python's a < b on two strings: the first differing character decides, and
\* a proper prefix is the smaller.
RECURSIVE StrLess(_, _)
StrLess(a, b) ==
    IF b = <<>> THEN FALSE
    ELSE IF a = <<>> THEN TRUE
    ELSE IF Head(a) # Head(b) THEN Ord(Head(a)) < Ord(Head(b))
    ELSE StrLess(Tail(a), Tail(b))

\* user_input of a flow step: None, or the dict of the submitted form.
NoInput == [t |-> "none"]
Submitted(d) == [t |-> "dict", d |-> d]
\* entry.options of an entry no options flow has written yet: no key is there.
NoOptions ==
    [min_temp |-> PyAbsent, max_temp |-> PyAbsent, wave_spread |-> PyAbsent,
     step_resolution |-> PyAbsent, unit_system |-> "absent",
     solar_noon_override |-> PyAbsent]

\* What a flow step returns: async_show_form, async_create_entry, or an
\* exception that leaves the step.
ShowForm(step_id, base_error) ==
    [type |-> "form", step_id |-> step_id, errors |-> base_error, data |-> NoOptions,
     exc |-> ""]
CreateEntry(data) ==
    [type |-> "create_entry", step_id |-> "", errors |-> "", data |-> data, exc |-> ""]
FlowRaised(exc) ==
    [type |-> "raise", step_id |-> "", errors |-> "", data |-> NoOptions, exc |-> exc]

\* DailyTemperatureWaveConfigFlow.async_step_user(user_input):
\*   if user_input[CONF_MIN_TEMP] >= user_input[CONF_MAX_TEMP]
\* compares the two submitted strings.
async_step_user(user_input) ==
    IF user_input.t = "none" THEN ShowForm("user", "")
    ELSE IF ~StrLess(user_input.d.min_temp.s, user_input.d.max_temp.s)
    THEN ShowForm("user", "min_max_invalid")
    ELSE CreateEntry(user_input.d)

\* DailyTemperatureWaveOptionsFlow._parse_temperature(temp_str)
flow_parse_temperature(temp_str) == parse_temperature_str(Upper(Strip(temp_str.s)))

\* self._options.update(user_input): a key of the submission replaces the
\* option of that name, and an option the submission lacks stays.
options_update(options, d) ==
    [min_temp |-> ConfigGet(d.min_temp, options.min_temp),
     max_temp |-> ConfigGet(d.max_temp, options.max_temp),
     wave_spread |-> ConfigGet(d.wave_spread, options.wave_spread),
     step_resolution |-> ConfigGet(d.step_resolution, options.step_resolution),
     unit_system |-> IF d.unit_system = "absent" THEN options.unit_system
                     ELSE d.unit_system,
     solar_noon_override |-> ConfigGet(d.solar_noon_override, options.solar_noon_override)]

\* async_step_init after its two calls of _parse_temperature: the first that
\* raised ends the step; then "if min_temp_val >= max_temp_val" on the two
\* magnitudes as parsed.
options_validated(options, d, min_p, max_p) ==
    IF min_p.exc # "" THEN FlowRaised(min_p.exc)
    ELSE IF max_p.exc # "" THEN FlowRaised(max_p.exc)
    ELSE IF RLe(max_p.val, min_p.val) THEN ShowForm("init", "min_max_invalid")
    ELSE CreateEntry(options_update(options, d))

\* DailyTemperatureWaveOptionsFlow.async_step_init(user_input), the flow
\* holding a copy of entry.options.
async_step_init(options, user_input) ==
    IF user_input.t = "none" THEN ShowForm("init", "")
    ELSE options_validated(options, user_input.d,
                           flow_parse_temperature(user_input.d.min_temp),
                           flow_parse_temperature(user_input.d.max_temp))

----------------------------------------------------------------------------
(* visual.py                                                               *)

DigitChar(d) ==
    CASE d = 0 -> "0" [] d = 1 -> "1" [] d = 2 -> "2" [] d = 3 -> "3" [] d = 4 -> "4"
      [] d = 5 -> "5" [] d = 6 -> "6" [] d = 7 -> "7" [] d = 8 -> "8" [] d = 9 -> "9"
\* f"{n:02d}" for 0 <= n <= 99
TwoDigits(n) == <<DigitChar(n \div 10), DigitChar(n % 10)>>

\* generate_simple_visualization(visual_data); wave_spread is the spread of
\* the sensor the frame came from, which the function is not given.
generate_simple_visualization(visual_data, wave_spread) ==
    [current_temp |-> visual_data.current_position.temp,
     current_hours_from_noon |-> visual_data.current_position.hours_from_noon,
     solar_noon |-> TwoDigits(visual_data.solar_noon.hour) \o <<":">>
                        \o TwoDigits(visual_data.solar_noon.minute),
     min_temp |-> visual_data.temperature_range.min,
     max_temp |-> visual_data.temperature_range.max,
     unit |-> visual_data.temperature_range.unit,
     is_rising |-> RLtInt(visual_data.current_position.hours_from_noon, 0)]

----------------------------------------------------------------------------
(* __init__.py                                                             *)

\* An entry's place in hass.data[DOMAIN] after an unload that removes the
\* record whatever the platform unload reports.
unload_entry_data_always(stored, unload_ok) == FALSE

\* async_unload_entry: whether hass.data[DOMAIN] still holds the entry's
\* record afterwards; the record is popped only when unload_ok.
unload_entry_data(stored, unload_ok) == IF unload_ok THEN FALSE ELSE stored

\* hass.data[DOMAIN].pop(entry.entry_id) raises KeyError without a record.
unload_entry_exc(stored, unload_ok) ==
    IF unload_ok /\ ~stored THEN "KeyError" ELSE ""

\* async_setup_entry: hass.data[DOMAIN][entry.entry_id] = {...}
setup_entry_data(stored) == TRUE

----------------------------------------------------------------------------
(* sensor.py, DailyTemperatureWaveBinarySensor                             *)

\* self.hass: None until the entity is added to a platform, then the running
\* instance with its clock and its sun.sun entity.
HassNone == [set |-> FALSE, now |-> 0,
             sun |-> [state |-> "raise", next_setting |-> AttrNone,
                      next_rising |-> AttrNone]]
Hass(hass_now, sun_entity) == [set |-> TRUE, now |-> hass_now, sun |-> sun_entity]

\* The properties of the class that define a setter: none.
BinarySetters == {}

BinaryRaised(e) == [exc |-> e, val |-> FALSE]

\* The second line of the property: is_temperature_rising(hass, solar_noon,
\* self._wave_spread), which reads the clock of hass.
binary_is_rising_at(self, hass, noon) ==
    IF noon.exc # "" THEN BinaryRaised(noon.exc)
    ELSE IF "_wave_spread" \notin self.assigned THEN BinaryRaised("AttributeError")
    ELSE IF ~hass.set THEN BinaryRaised("AttributeError")
    ELSE [exc |-> "",
          val |-> is_temperature_rising(hass.now, noon.time, self.wave_spread)]

\* The property _is_rising: self._solar_noon_override is read as an argument
\* of get_solar_noon; with hass None the sun branch raises inside its try.
binary_is_rising(self, hass) ==
    IF "_solar_noon_override" \notin self.assigned THEN BinaryRaised("AttributeError")
    ELSE binary_is_rising_at(self, hass, get_solar_noon(hass.sun, self.solar_noon_override))

\* __init__ from the assignment of _attr_icon on; r is the reading of
\* self._is_rising on its right-hand side.
binary_init_icon(config, r) ==
    IF r.exc # "" THEN [exc |-> r.exc, obj |-> NoSensor]
    ELSE [exc |-> "",
          obj |-> [exists |-> TRUE, key |-> "rising",
                   assigned |-> {"config_entry", "_attr_unique_id", "_attr_name",
                                 "_attr_icon", "_config", "_solar_noon_override",
                                 "_wave_spread"},
                   icon |-> IF r.val THEN "mdi:arrow-up" ELSE "mdi:arrow-down",
                   config |-> config,
                   solar_noon_override |-> ConfigGet(config.solar_noon_override, PyNone),
                   wave_spread |-> ConfigGet(config.wave_spread, PyNum(Int2R(1))).v]]

\* DailyTemperatureWaveBinarySensor.__init__(config_entry): [exc, obj].  The
\* icon is computed when only the first three attributes are assigned and
\* hass is None.
binary_sensor_init(config) ==
    binary_init_icon(config,
        binary_is_rising([assigned |-> {"config_entry", "_attr_unique_id", "_attr_name"}],
                         HassNone))

\* The icon assignment of async_update, r the second reading of _is_rising.
binary_update_icon(self, r) ==
    IF r.exc # "" THEN [exc |-> r.exc, obj |-> self]
    ELSE [exc |-> "",
          obj |-> [self EXCEPT !.icon = IF r.val THEN "mdi:arrow-up"
                                        ELSE "mdi:arrow-down"]]

\* async_update from "self._is_rising = ..." on, r the reading on the
\* right-hand side: _is_rising is a property without a setter, so the
\* assignment raises AttributeError.
binary_update_assign(self, hass, r) ==
    IF r.exc # "" THEN [exc |-> r.exc, obj |-> self]
    ELSE IF "_is_rising" \notin BinarySetters THEN [exc |-> "AttributeError", obj |-> self]
    ELSE binary_update_icon(self, binary_is_rising(self, hass))

\* DailyTemperatureWaveBinarySensor.async_update: [exc, obj]
binary_async_update(self, hass) ==
    binary_update_assign(self, hass, binary_is_rising(self, hass))

\* async_add_entities([binary_sensor], True): the entity gets its hass and is
\* updated once before it is added.
binary_added(r, hass) ==
    IF r.exc # "" THEN [exc |-> r.exc, stage |-> "init", obj |-> NoSensor]
    ELSE [exc |-> binary_async_update(r.obj, hass).exc, stage |-> "update",
          obj |-> binary_async_update(r.obj, hass).obj]

\* async_setup_binary_sensor_entry(hass, config_entry, async_add_entities)
async_setup_binary_sensor_entry(hass, config) ==
    binary_added(binary_sensor_init(config), hass)

----------------------------------------------------------------------------
(* The state: the sensor entities of the platform, the host's clock and    *)
(* its sun.sun entity.                                                      *)

VARIABLES
    slots,      \* id -> the config entry data and description a sensor is built from
    sensors,    \* id -> the sensor object, NoSensor until constructed
    now,        \* the host's wall clock, in minutes
    ticks,      \* scan intervals elapsed so far
    sun,        \* the state and attributes of sun.sun
    outcome     \* what the last call read and how it ended

vars == <<slots, sensors, now, ticks, sun, outcome>>

\* Scan intervals a run lets pass.
MaxTicks == 1

\* Configured (min_temp, max_temp) literals: 20C/30C, 68F/86F (the same range
\* in Fahrenheit), and two invalid ranges, 30C/20C and 25C/25C.
MinMaxLiterals ==
    {<<PyStr(<<"2", "0", "C">>), PyStr(<<"3", "0", "C">>)>>,
     <<PyStr(<<"6", "8", "F">>), PyStr(<<"8", "6", "F">>)>>,
     <<PyStr(<<"3", "0", "C">>), PyStr(<<"2", "0", "C">>)>>,
     <<PyStr(<<"2", "5", "C">>), PyStr(<<"2", "5", "C">>)>>}
WaveSpreads == {Int2R(1), Rat(1, 2), Rat(3, 2), Int2R(2), Int2R(0), Int2R(-1)}
\* Step literals 1F, 0.5C and 41F (41F is 5 Celsius as a temperature).
StepLiterals ==
    {PyStr(<<"1", "F">>), PyStr(<<"0", ".", "5", "C">>), PyStr(<<"4", "1", "F">>)}
UnitSystems == {"metric", "imperial"}
\* Overrides: none, 14:30, and the malformed 25:00.
Overrides ==
    {PyNone, PyStr(<<"1", "4", ":", "3", "0">>), PyStr(<<"2", "5", ":", "0", "0">>)}

DefaultConfig ==
    [min_temp |-> DEFAULT_MIN_TEMP, max_temp |-> DEFAULT_MAX_TEMP,
     wave_spread |-> DEFAULT_WAVE_SPREAD, step_resolution |-> DEFAULT_STEP_RESOLUTION,
     unit_system |-> "metric", solar_noon_override |-> PyNone]

AllConfigs ==
    {[min_temp |-> mm[1], max_temp |-> mm[2], wave_spread |-> PyNum(ws),
      step_resolution |-> st, unit_system |-> us, solar_noon_override |-> ov] :
        mm \in MinMaxLiterals, ws \in WaveSpreads, st \in StepLiterals,
        us \in UnitSystems, ov \in Overrides}

\* How many settings of a config differ from the defaults.
Changed(c) ==
    (IF c.min_temp # DefaultConfig.min_temp \/ c.max_temp # DefaultConfig.max_temp
     THEN 1 ELSE 0)
    + (IF c.wave_spread # DefaultConfig.wave_spread THEN 1 ELSE 0)
    + (IF c.step_resolution # DefaultConfig.step_resolution THEN 1 ELSE 0)
    + (IF c.unit_system # DefaultConfig.unit_system THEN 1 ELSE 0)
    + (IF c.solar_noon_override # DefaultConfig.solar_noon_override THEN 1 ELSE 0)

\* The config entries of the runs: every pair of settings in every combination.
Configs == {c \in AllConfigs : Changed(c) <= 2}

\* Clock readings the runs start from: 00:00, 06:00, 12:00, 13:00, 14:30 and
\* 18:00 of the second day.
StartTimes == {1440 + m : m \in {0, 360, 720, 780, 870, 1080}}

SunMissing == [state |-> "missing", next_setting |-> AttrNone, next_rising |-> AttrNone]
\* Above the horizon: sunset today at 19:00, sunrise tomorrow at 07:00.
SunUp == [state |-> "above_horizon",
          next_setting |-> AttrAt(1440 + 1140), next_rising |-> AttrAt(2880 + 420)]
SunStates == {SunMissing, SunUp}

NoCall == [op |-> "none", id |-> 0, exc |-> "", now1 |-> 0, now2 |-> 0,
           solar_noon |-> Time(12, 0)]

Init ==
    /\ \E c \in Configs, k \in SENSOR_DESCRIPTIONS :
           slots = (1 :> [config |-> c, key |-> k])
    /\ sensors = (1 :> NoSensor)
    /\ now \in StartTimes
    /\ ticks = 0
    /\ sun \in SunStates
    /\ outcome = NoCall

\* The constructor's result r stored: a constructor that raised leaves no entity.
Created(i, r) ==
    /\ sensors' = [sensors EXCEPT ![i] = r.obj]
    /\ outcome' = [NoCall EXCEPT !.op = "init", !.id = i, !.exc = r.exc,
                                 !.now1 = now, !.now2 = now]

\* async_setup_entry of the sensor platform constructing a sensor entity.
Create(i) ==
    /\ ~sensors[i].exists
    /\ Created(i, sensor_init(slots[i].config, slots[i].key))
    /\ UNCHANGED <<slots, now, ticks, sun>>

\* Updated with the value kept in one place for all sensors: the assignment
\* reaches every constructed sensor.
Updated_shared(i, d, solar_noon, r) ==
    /\ sensors' = IF r.exc = ""
                  THEN [j \in DOMAIN sensors |->
                           IF sensors[j].exists
                           THEN [sensors[j] EXCEPT !.native_value = r.val]
                           ELSE sensors[j]]
                  ELSE sensors
    /\ outcome' = [op |-> "update", id |-> i, exc |-> r.exc, now1 |-> now,
                   now2 |-> now + d, solar_noon |-> solar_noon]

\* The assignment to _attr_native_value, which a raised exception skips.
Updated(i, d, solar_noon, r) ==
    /\ sensors' = IF r.exc = "" THEN [sensors EXCEPT ![i].native_value = r.val]
                  ELSE sensors
    /\ outcome' = [op |-> "update", id |-> i, exc |-> r.exc, now1 |-> now,
                   now2 |-> now + d, solar_noon |-> solar_noon]

\* async_update from the result of get_solar_noon on; an exception of
\* get_solar_noon would leave async_update.
UpdateAt(i, d, noon) ==
    IF noon.exc # "" THEN Updated(i, d, noon.time, [exc |-> noon.exc, val |-> [kind |-> "none"]])
    ELSE Updated(i, d, noon.time, update_value(sensors[i], now, now + d, noon.time))

\* DailyTemperatureWaveSensor.async_update.  While the visual frame is built
\* the clock may move on by a minute between its two readings.
Update(i) ==
    /\ sensors[i].exists
    /\ \E d \in {0, 1} :
        /\ d = 1 => sensors[i].key = SENSOR_VISUAL /\ ticks < MaxTicks
        /\ UpdateAt(i, d, get_solar_noon(sun, sensors[i].solar_noon_override))
        /\ now' = now + d
        /\ ticks' = ticks + d
    /\ UNCHANGED <<slots, sun>>

\* A scan interval (one minute) passes.
Tick ==
    /\ ticks < MaxTicks
    /\ now' = now + 1
    /\ ticks' = ticks + 1
    /\ UNCHANGED <<slots, sensors, sun, outcome>>

Next ==
    \/ \E i \in DOMAIN slots : Create(i)
    \/ \E i \in DOMAIN slots : Update(i)
    \/ Tick

Spec == Init /\ [][Next]_vars

----------------------------------------------------------------------------
(* The wave formula on its own: a constructed sensor and the wave          *)
(* arithmetic of _calculate_current_temperature at chosen offsets.          *)

WaveTempLiterals ==
    {PyStr(<<"-", "5", "C">>), PyStr(<<"0", "C">>), PyStr(<<"2", "0", "C">>),
     PyStr(<<"2", "5", ".", "5", "C">>), PyStr(<<"3", "0", "C">>), PyStr(<<"6", "8", "F">>)}
WaveSpreadValues == {Rat(1, 2), Int2R(1), Rat(3, 2), Int2R(2), Int2R(3), Int2R(0)}
WaveConfigs ==
    {[DefaultConfig EXCEPT !.min_temp = a, !.max_temp = b, !.wave_spread = PyNum(s)] :
        a \in WaveTempLiterals, b \in WaveTempLiterals, s \in WaveSpreadValues}
\* Offsets from noon the formula is applied at: 0, six spreads either side
\* of it, and 3, 12 and -12 hours.
WaveHours(s) ==
    {Int2R(0), RMulInt(s, 6), RMulInt(s, -6), Int2R(3), Int2R(12), Int2R(-12)}

WaveInit ==
    /\ \E c \in WaveConfigs :
           /\ slots = (1 :> [config |-> c, key |-> SENSOR_CURRENT])
           /\ sensors = (1 :> sensor_init(c, SENSOR_CURRENT).obj)
    /\ now = 1440 + 720
    /\ ticks = 0
    /\ sun = SunMissing
    /\ outcome = NoCall

\* The wave arithmetic of sensor i at the offset hours_from_noon.
WaveAt(i, hours_from_noon) ==
    /\ outcome' = [op |-> "wave", id |-> i, hours_from_noon |-> hours_from_noon,
                   r |-> wave_temp_c(sensors[i], hours_from_noon)]
    /\ UNCHANGED <<slots, sensors, now, ticks, sun>>

WaveNext ==
    \E i \in DOMAIN slots : \E h \in WaveHours(sensors[i].wave_spread) : WaveAt(i, h)

SpecWave == WaveInit /\ [][WaveNext]_vars

----------------------------------------------------------------------------
(* The offset from solar noon on its own: every minute of the day against  *)
(* solar noons at both ends and in the middle of the day.                   *)

PositionNoons ==
    {PyStr(<<"0", "0", ":", "0", "0">>), PyStr(<<"1", "1", ":", "5", "9">>),
     PyStr(<<"1", "2", ":", "0", "0">>), PyStr(<<"2", "3", ":", "5", "9">>)}

PositionInit ==
    /\ \E ov \in PositionNoons :
           /\ slots = (1 :> [config |-> [DefaultConfig EXCEPT !.solar_noon_override = ov],
                             key |-> SENSOR_FORECAST_24H])
           /\ sensors = (1 :> sensor_init([DefaultConfig EXCEPT !.solar_noon_override = ov],
                                          SENSOR_FORECAST_24H).obj)
    /\ now \in {1440 + m : m \in 0..1439}
    /\ ticks = 0
    /\ sun = SunMissing
    /\ outcome = NoCall

\* get_current_solar_position at the clock reading now.
PositionAt(i, solar_noon) ==
    outcome' = [op |-> "position", id |-> i, now1 |-> now, solar_noon |-> solar_noon,
                hours_from_noon |-> get_current_solar_position(now, solar_noon)]
Position(i) ==
    /\ PositionAt(i, get_solar_noon(sun, sensors[i].solar_noon_override).time)
    /\ UNCHANGED <<slots, sensors, now, ticks, sun>>

\* The hours_from_noon of the 24 samples of _generate_24h_forecast, before
\* each is rounded into its record.
ForecastHoursAt(i, solar_noon) ==
    outcome' = [op |-> "forecast_hours", id |-> i, now1 |-> now, solar_noon |-> solar_noon,
                hours_from_noon |->
                    [k \in 1..24 |-> forecast_hours_from_noon(now, solar_noon, k - 1)]]
ForecastHours(i) ==
    /\ ForecastHoursAt(i, get_solar_noon(sun, sensors[i].solar_noon_override).time)
    /\ UNCHANGED <<slots, sensors, now, ticks, sun>>

PositionNext ==
    \/ \E i \in DOMAIN slots : Position(i)
    \/ \E i \in DOMAIN slots : ForecastHours(i)

SpecPosition == PositionInit /\ [][PositionNext]_vars

----------------------------------------------------------------------------
(* get_solar_noon on its own: every short override over a small alphabet,  *)
(* the literals of the documentation, and every state of sun.sun.          *)

OverrideAlphabet == {"0", "2", "6", ":"}
\* The longest generated override.
MaxOverrideLen == 5
GeneratedOverrides == UNION {[1..n -> OverrideAlphabet] : n \in 1..MaxOverrideLen}
NoonOverrides ==
    {PyNone, PyStr(<<>>), PyNum(Int2R(1430))}
    \cup {PyStr(s) : s \in GeneratedOverrides}
    \cup {PyStr(<<"1", "4", ":", "3", "0">>), PyStr(<<"2", "5", ":", "0", "0">>),
          PyStr(<<"1", "2">>), PyStr(<<"a", ":", "b">>),
          PyStr(<<"1", "4", ":", "3", "0", ":", "0", "0">>)}

\* states.get("sun.sun") raising, and the sun below the horizon.
SunRaising == [state |-> "raise", next_setting |-> AttrNone, next_rising |-> AttrNone]
SunDown == [state |-> "below_horizon",
            next_setting |-> AttrAt(2880 + 1140), next_rising |-> AttrAt(2880 + 420)]
NoonSunStates ==
    {SunMissing, SunRaising, SunDown}
    \cup {[state |-> "above_horizon", next_setting |-> a, next_rising |-> b] :
            a \in {AttrNone, AttrBad, AttrAt(1440 + 1140), AttrAt(1440 + 1141)},
            b \in {AttrNone, AttrBad, AttrAt(2880 + 420)}}

NoonInit ==
    /\ \E ov \in NoonOverrides :
           /\ slots = (1 :> [config |-> [DefaultConfig EXCEPT !.solar_noon_override = ov],
                             key |-> SENSOR_CURRENT])
           /\ sensors = (1 :> sensor_init([DefaultConfig EXCEPT !.solar_noon_override = ov],
                                          SENSOR_CURRENT).obj)
    /\ now = 1440 + 720
    /\ ticks = 0
    /\ sun \in NoonSunStates
    /\ outcome = NoCall

\* get_solar_noon(hass, self._solar_noon_override), as async_update calls it.
GetSolarNoon(i) ==
    /\ outcome' = [op |-> "get_solar_noon", id |-> i,
                   r |-> get_solar_noon(sun, sensors[i].solar_noon_override)]
    /\ UNCHANGED <<slots, sensors, now, ticks, sun>>

NoonNext == \E i \in DOMAIN slots : GetSolarNoon(i)

SpecNoon == NoonInit /\ [][NoonNext]_vars

----------------------------------------------------------------------------
(* is_temperature_rising on its own: every minute of the day against solar *)
(* noon at midday and at midnight, for spreads that put the ends of the    *)
(* window on whole minutes.                                                 *)

RisingSpreads == {Rat(1, 4), Rat(1, 2), Rat(7, 10), Int2R(1), Rat(3, 2), Int2R(2)}
RisingNoons == {PyStr(<<"1", "2", ":", "0", "0">>), PyStr(<<"0", "0", ":", "0", "0">>)}
RisingConfigs ==
    {[DefaultConfig EXCEPT !.wave_spread = PyNum(s), !.solar_noon_override = ov] :
        s \in RisingSpreads, ov \in RisingNoons}

RisingInit ==
    /\ \E c \in RisingConfigs :
           /\ slots = (1 :> [config |-> c, key |-> SENSOR_CURRENT])
           /\ sensors = (1 :> sensor_init(c, SENSOR_CURRENT).obj)
    /\ now \in {1440 + m : m \in 0..1439}
    /\ ticks = 0
    /\ sun = SunMissing
    /\ outcome = NoCall

\* is_temperature_rising at the clock reading now.
IsRisingAt(i, solar_noon) ==
    outcome' = [op |-> "is_temperature_rising", id |-> i, now1 |-> now,
                solar_noon |-> solar_noon,
                r |-> is_temperature_rising(now, solar_noon, sensors[i].wave_spread)]
IsRising(i) ==
    /\ IsRisingAt(i, get_solar_noon(sun, sensors[i].solar_noon_override).time)
    /\ UNCHANGED <<slots, sensors, now, ticks, sun>>

RisingNext == \E i \in DOMAIN slots : IsRising(i)

SpecRising == RisingInit /\ [][RisingNext]_vars

----------------------------------------------------------------------------
(* The functions of utils/temperature.py on their own: a call is drawn     *)
(* with its arguments and the function is applied to them.                  *)

\* Values to round are the eighths up to MaxEighths either side of zero, and
\* the values of the tests.
MaxEighths == 24
RoundValues ==
    {Rat(n, 8) : n \in (-MaxEighths)..MaxEighths}
    \cup {Rat(203, 10), Rat(206, 10), Rat(202, 10), Rat(207, 10)}
RoundSteps ==
    {Int2R(-1), Int2R(0), Rat(1, 4), Rat(1, 3), Rat(1, 2), Rat(5, 9), Int2R(1),
     Rat(3, 2), Int2R(5)}

\* Literals to parse: every string up to MaxLiteralLen over a small alphabet,
\* the literals of the documentation and of the tests, the spellings of the
\* non-finite floats, numbers, and None.
LiteralAlphabet == {"2", ".", "-", " ", "c", "F"}
MaxLiteralLen == 4
GeneratedLiterals == UNION {[1..n -> LiteralAlphabet] : n \in 0..MaxLiteralLen}
ParseInputs ==
    {PyStr(s) : s \in GeneratedLiterals}
    \cup {PyStr(<<"2", "0", "C">>), PyStr(<<"2", "0", "c">>), PyStr(<<"2", "0">>),
          PyStr(<<"6", "8", "F">>), PyStr(<<"6", "8", "f">>),
          PyStr(<<" ", "2", "0", ".", "5", "c", " ">>), PyStr(<<"1", "e", "2", "F">>),
          PyStr(<<"0", ".", "5", "C">>), PyStr(<<"a", "b", "c">>),
          PyStr(<<"i", "n", "f">>), PyStr(<<"i", "n", "f", "C">>),
          PyStr(<<"-", "i", "n", "f", "F">>), PyStr(<<"i", "n", "f", "i", "n", "i", "t", "y">>),
          PyStr(<<"n", "a", "n">>), PyStr(<<"N", "a", "N", "f">>)}
    \cup {PyNum(Int2R(20)), PyNum(Rat(41, 2)), PyNum(Rat(-5, 2)), PyNum(Int2R(0)), PyNone}

UtilCalls ==
    {[op |-> "call", fn |-> "round_to_step", value |-> PyNum(v), step |-> PyNum(s)] :
        v \in RoundValues, s \in RoundSteps}
    \cup {[op |-> "call", fn |-> f, value |-> x, step |-> PyNone] :
            f \in {"parse_temperature_value", "parse_step_resolution"}, x \in ParseInputs}

UtilInit ==
    /\ slots = (1 :> [config |-> DefaultConfig, key |-> SENSOR_CURRENT])
    /\ sensors = (1 :> sensor_init(DefaultConfig, SENSOR_CURRENT).obj)
    /\ now = 1440 + 720
    /\ ticks = 0
    /\ sun = SunMissing
    /\ outcome \in UtilCalls

\* round_to_step(value, step) applied to the arguments of the call.
RoundToStep ==
    /\ outcome.op = "call" /\ outcome.fn = "round_to_step"
    /\ outcome' = [op |-> "round_to_step", value |-> outcome.value, step |-> outcome.step,
                   r |-> round_to_step(outcome.value.v, outcome.step.v)]
    /\ UNCHANGED <<slots, sensors, now, ticks, sun>>

\* parse_temperature_value(value) applied to the argument of the call.
ParseTemperatureValue ==
    /\ outcome.op = "call" /\ outcome.fn = "parse_temperature_value"
    /\ outcome' = [op |-> "parse_temperature_value", value |-> outcome.value,
                   r |-> parse_temperature_value(outcome.value)]
    /\ UNCHANGED <<slots, sensors, now, ticks, sun>>

\* parse_step_resolution(step_resolution) applied to the argument of the call.
ParseStepResolution ==
    /\ outcome.op = "call" /\ outcome.fn = "parse_step_resolution"
    /\ outcome' = [op |-> "parse_step_resolution", value |-> outcome.value,
                   r |-> parse_step_resolution(outcome.value)]
    /\ UNCHANGED <<slots, sensors, now, ticks, sun>>

UtilNext == RoundToStep \/ ParseTemperatureValue \/ ParseStepResolution

SpecUtils == UtilInit /\ [][UtilNext]_vars

----------------------------------------------------------------------------
(* The forecast and visual sensors through their life: the state machine   *)
(* of the sensor started from valid configurations of these five sensors,  *)
(* at clock readings on and off the hour.                                   *)

ForecastKeys ==
    {SENSOR_FORECAST_24H, SENSOR_FORECAST_24H_STEP, SENSOR_FORECAST_7D,
     SENSOR_FORECAST_7D_STEP, SENSOR_VISUAL}
ForecastLimits ==
    {<<PyStr(<<"2", "0", "C">>), PyStr(<<"3", "0", "C">>)>>,
     <<PyStr(<<"6", "8", "F">>), PyStr(<<"8", "6", "F">>)>>}
ForecastSpreads == {Rat(1, 2), Int2R(1), Rat(3, 2), Int2R(2)}
ForecastConfigs ==
    {[min_temp |-> mm[1], max_temp |-> mm[2], wave_spread |-> PyNum(ws),
      step_resolution |-> st, unit_system |-> us, solar_noon_override |-> ov] :
        mm \in ForecastLimits, ws \in ForecastSpreads,
        st \in {PyStr(<<"1", "F">>), PyStr(<<"0", ".", "5", "C">>)},
        us \in UnitSystems, ov \in {PyNone, PyStr(<<"1", "4", ":", "3", "0">>)}}
ForecastStartTimes == {1440 + m : m \in {0, 377, 690, 1439}}

ForecastInit ==
    /\ \E c \in ForecastConfigs, k \in ForecastKeys :
           slots = (1 :> [config |-> c, key |-> k])
    /\ sensors = (1 :> NoSensor)
    /\ now \in ForecastStartTimes
    /\ ticks = 0
    /\ sun = SunMissing
    /\ outcome = NoCall

SpecForecast == ForecastInit /\ [][Next]_vars

----------------------------------------------------------------------------
(* The wave formula over the day: every half hour from -12 to +12 hours,   *)
(* for spreads below, at and above 1.                                       *)

GridTempLiterals ==
    {PyStr(<<"-", "5", "C">>), PyStr(<<"2", "0", "C">>), PyStr(<<"3", "0", "C">>),
     PyStr(<<"6", "8", "F">>)}
GridSpreads == {Rat(1, 2), Rat(7, 10), Int2R(1), Rat(3, 2), Int2R(2), Int2R(3)}
GridConfigs ==
    {[DefaultConfig EXCEPT !.min_temp = a, !.max_temp = b, !.wave_spread = PyNum(s)] :
        a \in GridTempLiterals, b \in GridTempLiterals, s \in GridSpreads}
\* The offsets are the half hours up to MaxHalfHours either side of noon.
MaxHalfHours == 24
GridHours == {Rat(n, 2) : n \in (-MaxHalfHours)..MaxHalfHours}

GridInit ==
    /\ \E c \in GridConfigs :
           /\ slots = (1 :> [config |-> c, key |-> SENSOR_CURRENT])
           /\ sensors = (1 :> sensor_init(c, SENSOR_CURRENT).obj)
    /\ now = 1440 + 720
    /\ ticks = 0
    /\ sun = SunMissing
    /\ outcome = NoCall

GridNext == \E i \in DOMAIN slots : \E h \in GridHours : WaveAt(i, h)

SpecWaveGrid == GridInit /\ [][GridNext]_vars

----------------------------------------------------------------------------
(* Two sensors side by side: the state machine of the sensor started with  *)
(* two entities, of the same or of different configurations.                *)

PairConfigs ==
    {DefaultConfig,
     [DefaultConfig EXCEPT !.min_temp = PyStr(<<"6", "8", "F">>),
                           !.max_temp = PyStr(<<"8", "6", "F">>),
                           !.unit_system = "imperial"],
     [DefaultConfig EXCEPT !.wave_spread = PyNum(Rat(3, 2)),
                           !.solar_noon_override = PyStr(<<"1", "4", ":", "3", "0">>)]}
PairKeys == {SENSOR_CURRENT, SENSOR_FORECAST_7D, SENSOR_VISUAL}

PairInit ==
    /\ \E c1 \in PairConfigs, c2 \in PairConfigs, k1 \in PairKeys, k2 \in PairKeys :
           slots = (1 :> [config |-> c1, key |-> k1]) @@ (2 :> [config |-> c2, key |-> k2])
    /\ sensors = (1 :> NoSensor) @@ (2 :> NoSensor)
    /\ now = 1440 + 870
    /\ ticks = 0
    /\ sun = SunMissing
    /\ outcome = NoCall

SpecPair == PairInit /\ [][Next]_vars

----------------------------------------------------------------------------
(* A config entry from its flows to its sensor: the user step creates the  *)
(* entry, the options step writes entry.options, the sensor platform        *)
(* constructs the sensor from the entry, and the sensor is updated.         *)

FlowLiterals ==
    {PyStr(<<"2", "0", "C">>), PyStr(<<"3", "0", "C">>), PyStr(<<"5", "C">>)}
UserInputs ==
    {NoInput}
    \cup {Submitted([DefaultConfig EXCEPT !.min_temp = a, !.max_temp = b,
                                          !.solar_noon_override = PyAbsent]) :
            a \in FlowLiterals, b \in FlowLiterals}
OptionsLiterals ==
    {PyStr(<<"2", "0", "C">>), PyStr(<<"3", "0", "C">>), PyStr(<<"5", "0", "F">>),
     PyStr(<<"x">>)}
OptionsInputs ==
    {NoInput}
    \cup {Submitted([DefaultConfig EXCEPT !.min_temp = a, !.max_temp = b,
                                          !.wave_spread = PyNum(ws),
                                          !.solar_noon_override = PyAbsent]) :
            a \in OptionsLiterals, b \in OptionsLiterals, ws \in {Int2R(1), Rat(3, 2)}}

FlowInit ==
    /\ slots = (1 :> [config |-> NoOptions, key |-> SENSOR_CURRENT, options |-> NoOptions,
                      created |-> FALSE])
    /\ sensors = (1 :> NoSensor)
    /\ now = 1440 + 900
    /\ ticks = 0
    /\ sun = SunMissing
    /\ outcome = NoCall

\* The result r of the user step stored: async_create_entry makes the entry
\* with the submission as its data.
UserStepped(i, user_input, r) ==
    /\ slots' = IF r.type = "create_entry"
                THEN [slots EXCEPT ![i].config = r.data, ![i].created = TRUE]
                ELSE slots
    /\ outcome' = [op |-> "step_user", id |-> i, input |-> user_input, r |-> r]
    /\ UNCHANGED <<sensors, now, ticks, sun>>

\* A submission, or the first showing, of the user step of the config flow.
StepUser(i) ==
    /\ ~slots[i].created
    /\ \E user_input \in UserInputs : UserStepped(i, user_input, async_step_user(user_input))

\* The result r of the options step stored: async_create_entry of an options
\* flow makes its data the entry's options.
OptionsStepped(i, user_input, r) ==
    /\ slots' = IF r.type = "create_entry" THEN [slots EXCEPT ![i].options = r.data]
                ELSE slots
    /\ outcome' = [op |-> "step_init", id |-> i, input |-> user_input, r |-> r]
    /\ UNCHANGED <<sensors, now, ticks, sun>>

\* A submission, or the first showing, of the init step of the options flow.
StepInit(i) ==
    /\ slots[i].created
    /\ \E user_input \in OptionsInputs :
           OptionsStepped(i, user_input, async_step_init(slots[i].options, user_input))

\* The sensor platform set up for the created entry.
SetupSensor(i) == slots[i].created /\ Create(i)

\* The sensor platform set up again for the entry (a reload, or a restart of
\* Home Assistant): the sensor is constructed anew from the entry.
SetupSensorAgain(i) ==
    /\ sensors[i].exists
    /\ Created(i, sensor_init(slots[i].config, slots[i].key))
    /\ UNCHANGED <<slots, now, ticks, sun>>

FlowNext ==
    \/ \E i \in DOMAIN slots : StepUser(i)
    \/ \E i \in DOMAIN slots : StepInit(i)
    \/ \E i \in DOMAIN slots : SetupSensor(i)
    \/ \E i \in DOMAIN slots : SetupSensorAgain(i)
    \/ \E i \in DOMAIN slots : Update(i)
    \/ Tick

SpecFlow == FlowInit /\ [][FlowNext]_vars

----------------------------------------------------------------------------
(* The visual sensor and the summary visual.py makes of its frame, at every *)
(* half hour of a day.                                                      *)

VisualSpreads == {Rat(1, 2), Int2R(1), Int2R(2)}
VisualConfigs ==
    {[DefaultConfig EXCEPT !.wave_spread = PyNum(ws)] : ws \in VisualSpreads}
VisualStartTimes == {1440 + 30 * k : k \in 0..47}

VisualInit ==
    /\ \E c \in VisualConfigs : slots = (1 :> [config |-> c, key |-> SENSOR_VISUAL])
    /\ sensors = (1 :> NoSensor)
    /\ now \in VisualStartTimes
    /\ ticks = 0
    /\ sun = SunMissing
    /\ outcome = NoCall

\* generate_simple_visualization applied to the frame the visual sensor holds.
SimpleVisualization(i) ==
    /\ sensors[i].exists
    /\ sensors[i].native_value.kind = "visual"
    /\ outcome' = [op |-> "simple_visualization", id |-> i,
                   r |-> generate_simple_visualization(sensors[i].native_value.val,
                                                       sensors[i].wave_spread)]
    /\ UNCHANGED <<slots, sensors, now, ticks, sun>>

VisualNext ==
    \/ \E i \in DOMAIN slots : Create(i)
    \/ \E i \in DOMAIN slots : Update(i)
    \/ \E i \in DOMAIN slots : SimpleVisualization(i)
    \/ Tick

SpecVisual == VisualInit /\ [][VisualNext]_vars

----------------------------------------------------------------------------
(* The life of config entries: __init__.py's async_setup_entry,             *)
(* async_unload_entry and async_reload_entry.  slots[i].stored says whether *)
(* hass.data[DOMAIN] holds a record for entry i, slots[i].forwards counts   *)
(* the calls of async_forward_entry_setups for the entry since its          *)
(* platforms were last unloaded, and the platform is loaded while the       *)
(* entry's sensor exists.                                                   *)

MaxForwards == 3

EntryConfigs ==
    {DefaultConfig, [DefaultConfig EXCEPT !.wave_spread = PyNum(Int2R(2))]}

\* The state async_setup leaves: hass.data[DOMAIN] is the empty dict.
EntryInit ==
    /\ \E c1 \in EntryConfigs, c2 \in EntryConfigs :
           slots = [i \in {1, 2} |->
                       [config |-> IF i = 1 THEN c1 ELSE c2, key |-> SENSOR_CURRENT,
                        stored |-> FALSE, forwards |-> 0]]
    /\ sensors = [i \in {1, 2} |-> NoSensor]
    /\ now = 1440 + 870
    /\ ticks = 0
    /\ sun = SunMissing
    /\ outcome = NoCall

Loaded(i) == sensors[i].exists

\* async_forward_entry_setups(entry, PLATFORMS): the sensor platform
\* constructs the entry's sensor.
Forwarded(i, r) ==
    sensors' = [sensors EXCEPT ![i] = r.obj]

\* async_setup_entry, called by Home Assistant for an entry that is not loaded.
SetupEntry(i) ==
    /\ ~Loaded(i)
    /\ slots[i].forwards < MaxForwards
    /\ slots' = [slots EXCEPT ![i].stored = setup_entry_data(slots[i].stored),
                              ![i].forwards = slots[i].forwards + 1]
    /\ Forwarded(i, sensor_init(slots[i].config, slots[i].key))
    /\ outcome' = [op |-> "setup_entry", id |-> i, unload_ok |-> FALSE, exc |-> ""]
    /\ UNCHANGED <<now, ticks, sun>>

\* async_unload_entry, called for a loaded entry; async_unload_platforms
\* reports success (the sensor is gone) or failure (it stays).
UnloadEntry(i) ==
    /\ Loaded(i)
    /\ \E unload_ok \in BOOLEAN :
        /\ slots' = [slots EXCEPT
                        ![i].stored = unload_entry_data(slots[i].stored, unload_ok),
                        ![i].forwards = IF unload_ok THEN 0 ELSE slots[i].forwards]
        /\ sensors' = IF unload_ok THEN [sensors EXCEPT ![i] = NoSensor] ELSE sensors
        /\ outcome' = [op |-> "unload_entry", id |-> i, unload_ok |-> unload_ok,
                       exc |-> unload_entry_exc(slots[i].stored, unload_ok)]
    /\ UNCHANGED <<now, ticks, sun>>

\* async_reload_entry for a loaded entry: async_unload_entry, its result
\* dropped, then async_setup_entry.
ReloadEntry(i) ==
    /\ Loaded(i)
    /\ slots[i].forwards < MaxForwards
    /\ \E unload_ok \in BOOLEAN :
        /\ slots' = [slots EXCEPT
                        ![i].stored =
                            setup_entry_data(unload_entry_data(slots[i].stored, unload_ok)),
                        ![i].forwards = IF unload_ok THEN 1 ELSE slots[i].forwards + 1]
        /\ Forwarded(i, sensor_init(slots[i].config, slots[i].key))
        /\ outcome' = [op |-> "reload_entry", id |-> i, unload_ok |-> unload_ok,
                       exc |-> unload_entry_exc(slots[i].stored, unload_ok)]
    /\ UNCHANGED <<now, ticks, sun>>

EntryNext ==
    \/ \E i \in DOMAIN slots : SetupEntry(i)
    \/ \E i \in DOMAIN slots : UnloadEntry(i)
    \/ \E i \in DOMAIN slots : ReloadEntry(i)
    \/ \E i \in DOMAIN slots : Update(i)

SpecEntry == EntryInit /\ [][EntryNext]_vars

----------------------------------------------------------------------------
(* The rising/falling sensor set up for an entry, at every half hour of a   *)
(* day.                                                                     *)

BinaryConfigs ==
    {[DefaultConfig EXCEPT !.wave_spread = PyNum(ws), !.solar_noon_override = ov] :
        ws \in VisualSpreads, ov \in {PyNone, PyStr(<<"1", "4", ":", "3", "0">>)}}

BinaryInit ==
    /\ \E c \in BinaryConfigs : slots = (1 :> [config |-> c, key |-> "rising"])
    /\ sensors = (1 :> NoSensor)
    /\ now \in VisualStartTimes
    /\ ticks = 0
    /\ sun \in SunStates
    /\ outcome = NoCall

BinarySetUp(i, r) ==
    /\ sensors' = [sensors EXCEPT ![i] = r.obj]
    /\ outcome' = [op |-> "setup_binary_sensor", id |-> i, exc |-> r.exc,
                   stage |-> r.stage]

\* async_setup_binary_sensor_entry for the entry.
SetupBinarySensor(i) ==
    /\ ~sensors[i].exists
    /\ BinarySetUp(i, async_setup_binary_sensor_entry(Hass(now, sun), slots[i].config))
    /\ UNCHANGED <<slots, now, ticks, sun>>

BinaryNext ==
    \/ \E i \in DOMAIN slots : SetupBinarySensor(i)
    \/ Tick

SpecBinary == BinaryInit /\ [][BinaryNext]_vars

----------------------------------------------------------------------------
(* The properties.  Each is stated about the one sensor of a run, its      *)
(* config entry and the record of the last call.                            *)

TheSensor == sensors[1]
TheConfig == slots[1].config

\* The temperature a configured literal denotes, in Celsius.
LiteralCelsius(value) ==
    convert_to_celsius(parse_temperature_value(value).val,
                       parse_temperature_value(value).unit)
\* min < max and wave_spread > 0 for the configured values.
ValidRange(c) == RLt(LiteralCelsius(c.min_temp), LiteralCelsius(c.max_temp))
PositiveSpread(c) == RGtInt(c.wave_spread.v, 0)
\* Both limits are written in Celsius.
CelsiusLimits(c) ==
    parse_temperature_value(c.min_temp).unit = "C"
    /\ parse_temperature_value(c.max_temp).unit = "C"

\* The last call was an async_update of a sensor of this kind, and it returned.
UpdatedOk(key) ==
    outcome.op = "update" /\ outcome.exc = "" /\ TheSensor.exists /\ TheSensor.key = key
\* The published reading, and the offset from solar noon it was computed at.
Reading == TheSensor.native_value.val
HoursAtUpdate == get_current_solar_position(outcome.now1, outcome.solar_noon)

\* C1: for a valid configuration with Celsius display and no stepping, the
\* point reading computed at hours_from_noon = 0 equals the configured maximum.
C1_NoonReadingIsMaximum ==
    (UpdatedOk(SENSOR_CURRENT) /\ ValidRange(TheConfig) /\ PositiveSpread(TheConfig)
        /\ CelsiusLimits(TheConfig) /\ TheConfig.unit_system = "metric"
        /\ HoursAtUpdate = Int2R(0))
    => Reading = LiteralCelsius(TheConfig.max_temp)

\* C1, what the code does: with the default 20C .. 30C the reading at solar
\* noon (12:00, no override, no sun entity) is 25, the middle of the range.
C1_NoonReadingIsMidpoint ==
    /\ UpdatedOk(SENSOR_CURRENT)
    /\ TheConfig = DefaultConfig
    /\ HoursAtUpdate = Int2R(0)
    /\ Reading = Int2R(25)

\* C2: for a valid configuration with wave_spread = 1 the wave temperature at
\* hours_from_noon = 12 equals the configured minimum.
C2_TwelveHoursIsMinimum ==
    (outcome.op = "wave" /\ ValidRange(TheConfig) /\ CelsiusLimits(TheConfig)
        /\ TheConfig.wave_spread.v = Int2R(1)
        /\ outcome.hours_from_noon = Int2R(12))
    => (outcome.r.exc = "" /\ outcome.r.val = LiteralCelsius(TheConfig.min_temp))

\* C2, what the code does: 20C .. 30C at spread 1 gives 25 twelve hours from
\* noon.
C2_TwelveHoursIsMidpoint ==
    /\ outcome.op = "wave"
    /\ TheConfig = DefaultConfig
    /\ outcome.hours_from_noon = Int2R(12)
    /\ outcome.r.val = Int2R(25)

FahrenheitToCelsius(v) == RDivInt(RMulInt(RAddInt(v, -32), 5), 9)

\* C4: a limit configured with a Fahrenheit suffix is held by the sensor as
\* (v - 32) * 5/9, not as the Fahrenheit magnitude.
C4_FahrenheitLimitsHeldInCelsius ==
    /\ (TheSensor.exists /\ TheSensor.min_temp_unit = "F")
         => TheSensor.min_temp_c
              = FahrenheitToCelsius(parse_temperature_value(TheConfig.min_temp).val)
    /\ (TheSensor.exists /\ TheSensor.max_temp_unit = "F")
         => TheSensor.max_temp_c
              = FahrenheitToCelsius(parse_temperature_value(TheConfig.max_temp).val)

\* C4, what the code does: 68F .. 86F is held as 68 .. 86 and the reading at
\* solar noon is 77.
C4_FahrenheitMagnitudeUsed ==
    /\ UpdatedOk(SENSOR_CURRENT)
    /\ TheConfig.min_temp = PyStr(<<"6", "8", "F">>)
    /\ TheSensor.min_temp_c = Int2R(68)
    /\ TheSensor.max_temp_c = Int2R(86)
    /\ TheConfig.unit_system = "metric"
    /\ HoursAtUpdate = Int2R(0)
    /\ Reading = Int2R(77)

\* The step the stepwise paths hand to round_to_step.
StepCelsius == convert_to_celsius(TheSensor.step_resolution, TheSensor.step_unit)

\* C5: with a positive step literal the converted step is positive and the
\* stepwise point reading, in Celsius, is an integer multiple of it.
C5_StepwiseReadingOnGrid ==
    (UpdatedOk(SENSOR_CURRENT_STEP) /\ TheConfig.unit_system = "metric"
        /\ RGtInt(TheSensor.step_resolution, 0))
    => (RGtInt(StepCelsius, 0) /\ RIsInt(RDiv(Reading, StepCelsius)))

\* C5, what the code does: the default step 1F becomes -155/9 Celsius and the
\* stepwise reading is the wave's value, unrounded.
C5_NegativeStepLeavesReading ==
    /\ UpdatedOk(SENSOR_CURRENT_STEP)
    /\ TheConfig.step_resolution = PyStr(<<"1", "F">>)
    /\ StepCelsius = Rat(-155, 9)
    /\ ~RIsInt(Reading)
    /\ Reading = wave_temp_c(TheSensor, HoursAtUpdate).val

\* C6: the point reading is in the display unit: celsius * 9/5 + 32 when the
\* unit system is imperial, the Celsius value when it is metric.
C6_ReadingInDisplayUnit ==
    /\ (UpdatedOk(SENSOR_CURRENT) /\ TheConfig.unit_system = "imperial")
         => Reading = RAddInt(RDivInt(RMulInt(wave_temp_c(TheSensor, HoursAtUpdate).val, 9), 5), 32)
    /\ (UpdatedOk(SENSOR_CURRENT) /\ TheConfig.unit_system = "metric")
         => Reading = wave_temp_c(TheSensor, HoursAtUpdate).val

\* C6, what the code does: with the imperial unit system the reading at solar
\* noon of 20C .. 30C is 25, the Celsius value, and the unit symbol is that
\* of Celsius.
C6_ImperialReadingInCelsius ==
    /\ UpdatedOk(SENSOR_CURRENT)
    /\ TheConfig.unit_system = "imperial"
    /\ TheConfig.min_temp = DEFAULT_MIN_TEMP /\ TheConfig.max_temp = DEFAULT_MAX_TEMP
    /\ HoursAtUpdate = Int2R(0)
    /\ Reading = Int2R(25)
    /\ TheSensor.native_unit_of_measurement = "°C"

\* C7: with min_temp >= max_temp or wave_spread <= 0 every update fails with
\* a configuration error and the sensor never holds a value.
C7_InvalidConfigYieldsNothing ==
    (TheSensor.exists /\ (~ValidRange(TheConfig) \/ ~PositiveSpread(TheConfig)))
    => /\ TheSensor.native_value.kind = "none"
       /\ outcome.op = "update" => outcome.exc = "ConfigError"

\* C7, what the code does: 30C .. 20C gives a reading, 20 six hours after
\* noon.
C7_InvertedRangeYieldsReading ==
    /\ UpdatedOk(SENSOR_CURRENT)
    /\ TheConfig.min_temp = PyStr(<<"3", "0", "C">>)
    /\ TheConfig.max_temp = PyStr(<<"2", "0", "C">>)
    /\ HoursAtUpdate = Int2R(6)
    /\ Reading = Int2R(20)

\* h lies in [-12, 12] and 60 h differs from the minutes between the clock
\* reading and the solar noon by a multiple of a day.
NormalisedOffset(h, instant, solar_noon) ==
    /\ RGeInt(h, -12) /\ RLeInt(h, 12)
    /\ RIsInt(RMulInt(h, 60))
    /\ (RMulInt(h, 60)[1]
          - ((instant % 1440) - (60 * solar_noon.hour + solar_noon.minute))) % 1440 = 0

\* C8: the offset from solar noon that get_current_solar_position returns,
\* and that of each sample of the 24h forecast, lies in [-12, 12] and is
\* congruent modulo 24 to clock hours - noon hours.
C8_OffsetNormalised ==
    /\ outcome.op = "position"
         => NormalisedOffset(outcome.hours_from_noon, outcome.now1, outcome.solar_noon)
    /\ outcome.op = "forecast_hours"
         => \A k \in 1..24 :
               NormalisedOffset(outcome.hours_from_noon[k], outcome.now1 + 60 * (k - 1),
                                outcome.solar_noon)

\* C8 happens: at 00:00 with solar noon at 23:59 the position is one minute
\* past noon, a difference of -23:59 brought into range.
C8_OffsetWrapped ==
    /\ outcome.op = "position"
    /\ outcome.now1 % 1440 = 0
    /\ outcome.solar_noon = Time(23, 59)
    /\ outcome.hours_from_noon = Rat(1, 60)

\* A string of the form HH:MM with HH in 00..23 and MM in 00..59.
StrictHHMM(s) ==
    /\ Len(s) = 5
    /\ s[3] = ":"
    /\ \A j \in {1, 2, 4, 5} : s[j] \in Digits
    /\ 10 * DigitVal(s[1]) + DigitVal(s[2]) <= 23
    /\ 10 * DigitVal(s[4]) + DigitVal(s[5]) <= 59

\* C9: an override of the form HH:MM makes get_solar_noon return that time,
\* whatever the state of sun.sun.
C9_OverrideReturned ==
    (outcome.op = "get_solar_noon" /\ TheSensor.solar_noon_override.t = "str"
        /\ StrictHHMM(TheSensor.solar_noon_override.s))
    => /\ outcome.r.exc = ""
       /\ outcome.r.time
            = Time(10 * DigitVal(TheSensor.solar_noon_override.s[1])
                      + DigitVal(TheSensor.solar_noon_override.s[2]),
                   10 * DigitVal(TheSensor.solar_noon_override.s[4])
                      + DigitVal(TheSensor.solar_noon_override.s[5]))

\* The sun is above the horizon with both of its timestamps.
CompleteSolarData ==
    sun.state = "above_horizon" /\ sun.next_setting.t = "ts" /\ sun.next_rising.t = "ts"

\* C9 happens: the override 14:30 is returned while the sun entity holds
\* complete data.
C9_OverrideBeatsSun ==
    /\ outcome.op = "get_solar_noon"
    /\ TheSensor.solar_noon_override = PyStr(<<"1", "4", ":", "3", "0">>)
    /\ CompleteSolarData
    /\ outcome.r.time = Time(14, 30)

\* An override that is a string of digits, a colon and digits, the hour at
\* most 23 and the minute at most 59.
WellFormedOverride(o) ==
    /\ o.t = "str"
    /\ \E i \in 2..(Len(o.s) - 1) :
          /\ o.s[i] = ":"
          /\ \A j \in (1..Len(o.s)) \ {i} : o.s[j] \in Digits
          /\ DigitsValue(SubSeq(o.s, 1, i - 1), 0) <= 23
          /\ DigitsValue(SubSeq(o.s, i + 1, Len(o.s)), 0) <= 59

HalfwayTime ==
    LET mid == RFloor(RAdd(Int2R(sun.next_rising.m),
                           Rat(sun.next_setting.m - sun.next_rising.m, 2)))
    IN  Time((mid \div 60) % 24, mid % 60)

MinutesFromNoon ==
    LET d == (outcome.now1 % 1440) - (60 * outcome.solar_noon.hour + outcome.solar_noon.minute)
    IN  IF d > 720 THEN d - 1440 ELSE IF d < -720 THEN d + 1440 ELSE d

\* C12: for a positive spread and every offset h in [-12, 12],
\* is_temperature_rising is true exactly when -6 * wave_spread <= h and
\* h <= 6 * wave_spread; both ends of the window count as rising.
C12_RisingExactlyInsideWindow ==
    (outcome.op = "is_temperature_rising" /\ RGtInt(TheSensor.wave_spread, 0))
    => (outcome.r <=> /\ RLe(RMulInt(TheSensor.wave_spread, -360), Int2R(MinutesFromNoon))
                      /\ RLe(Int2R(MinutesFromNoon), RMulInt(TheSensor.wave_spread, 360)))

\* C12 happens: with spread 0.7 the call at exactly 4 h 12 min before solar
\* noon, the lower end of the window, answers rising.
C12_LowerEndIsRising ==
    /\ outcome.op = "is_temperature_rising"
    /\ TheSensor.wave_spread = Rat(7, 10)
    /\ MinutesFromNoon = -252
    /\ outcome.r = TRUE

\* C12 happens: one minute past the upper end of the window the call answers
\* not rising.
C12_PastUpperEndIsNotRising ==
    /\ outcome.op = "is_temperature_rising"
    /\ TheSensor.wave_spread = Int2R(1)
    /\ MinutesFromNoon = 361
    /\ outcome.r = FALSE

\* ---------------------------------------------------------------------------
\* Rounding to the step.

\* |a - b|
Distance(a, b) == IF RLt(a, b) THEN RSub(b, a) ELSE RSub(a, b)

\* r is k * step for an integer k, no farther from value than half a step,
\* and k is even when r is exactly half a step away.
NearestMultiple(r, value, step) ==
    /\ RIsInt(RDiv(r, step))
    /\ RLe(Distance(r, value), RDivInt(step, 2))
    /\ Distance(r, value) = RDivInt(step, 2) => RFloor(RDiv(r, step)) % 2 = 0

\* C13: round_to_step returns the value unchanged when step <= 0, and for
\* step > 0 the multiple k * step nearest to the value, at most step / 2 away,
\* an exact tie going to the even multiple.
C13_RoundsToNearestMultiple ==
    outcome.op = "round_to_step"
    => IF RLeInt(outcome.step.v, 0) THEN outcome.r = outcome.value.v
       ELSE NearestMultiple(outcome.r, outcome.value.v, outcome.step.v)

\* C13 happens: 0.75 with step 0.5 is a tie between 0.5 and 1.0 and goes to
\* 1.0, the even multiple.
C13_TieGoesToEvenMultiple ==
    /\ outcome.op = "round_to_step"
    /\ outcome.value.v = Rat(3, 4)
    /\ outcome.step.v = Rat(1, 2)
    /\ outcome.r = Int2R(1)

\* C13 happens: 0.25 with step 0.5 is a tie between 0 and 0.5 and goes down
\* to 0.
C13_TieGoesDown ==
    /\ outcome.op = "round_to_step"
    /\ outcome.value.v = Rat(1, 4)
    /\ outcome.step.v = Rat(1, 2)
    /\ outcome.r = Int2R(0)

\* ---------------------------------------------------------------------------
\* Parsing a temperature literal.

\* The literal with surrounding whitespace removed and in upper case, its
\* last character, and what precedes it.
Trimmed(value) == Upper(Strip(value.s))
Suffix(value) == IF Trimmed(value) = <<>> THEN "" ELSE Trimmed(value)[Len(Trimmed(value))]
Prefix(value) == SubSeq(Trimmed(value), 1, Len(Trimmed(value)) - 1)
\* The text that is read as the number: the prefix when the literal ends in
\* F or C, else the whole trimmed literal.
NumberText(value) ==
    IF Suffix(value) \in {"F", "C"} THEN Prefix(value) ELSE Trimmed(value)
UnitOf(value) == IF Suffix(value) = "F" THEN "F" ELSE "C"

\* C14: parse_temperature_value maps a number v to (float(v), "C"); a string
\* is trimmed and uppercased, and gives (prefix, "F") if it ends in F,
\* (prefix, "C") if it ends in C, and (the whole string, "C") otherwise, the
\* suffix in either case; parse_step_resolution returns the same for every
\* input.
C14_ParsesNumberAndSuffix ==
    (outcome.op \in {"parse_temperature_value", "parse_step_resolution"}
        /\ outcome.r.exc = "")
    => /\ outcome.value.t \in {"num", "str"}
       /\ outcome.value.t = "num"
            => outcome.r.val = outcome.value.v /\ outcome.r.unit = "C"
       /\ outcome.value.t = "str"
            => /\ PyFloat(NumberText(outcome.value)).exc = ""
               /\ outcome.r.val = PyFloat(NumberText(outcome.value)).val
               /\ outcome.r.unit = UnitOf(outcome.value)
               /\ outcome.r = parse_temperature_value(PyStr(Upper(outcome.value.s)))

\* C14: the two functions return whenever the input is a number, or a string
\* whose number text float() accepts.
C14_ParsesWheneverNumberIsValid ==
    (outcome.op \in {"parse_temperature_value", "parse_step_resolution"}
        /\ (outcome.value.t = "num"
              \/ (outcome.value.t = "str" /\ PyFloat(NumberText(outcome.value)).exc = "")))
    => outcome.r.exc = ""

\* C14: a number or a string with a valid number text is parsed by both
\* functions into the pair the suffix rule gives, and nothing else is.
C14_ParseRule == C14_ParsesNumberAndSuffix /\ C14_ParsesWheneverNumberIsValid

\* C14 happens: parse_step_resolution reads " 20.5c " as (20.5, "C").
C14_LowerCaseSuffixRead ==
    /\ outcome.op = "parse_step_resolution"
    /\ outcome.value = PyStr(<<" ", "2", "0", ".", "5", "c", " ">>)
    /\ outcome.r = [exc |-> "", val |-> Rat(41, 2), unit |-> "C"]

\* C14 happens: parse_temperature_value reads "68f" as (68, "F").
C14_FahrenheitSuffixRead ==
    /\ outcome.op = "parse_temperature_value"
    /\ outcome.value = PyStr(<<"6", "8", "f">>)
    /\ outcome.r = [exc |-> "", val |-> Int2R(68), unit |-> "F"]

\* A magnitude that is neither an infinity nor nan.
FiniteMagnitude(v) == v[2] # 0

\* C15: the parse raises ValueError when the input is neither a number nor a
\* string, and when the number text (the empty string and the bare suffixes
\* included) is not accepted by float().
C15_InvalidInputFails ==
    (outcome.op \in {"parse_temperature_value", "parse_step_resolution"}
        /\ (outcome.value.t \notin {"num", "str"}
              \/ (outcome.value.t = "str" /\ PyFloat(NumberText(outcome.value)).exc # "")))
    => outcome.r.exc = "ValueError"

\* C15: parse_temperature_value fails with a parse error whenever the
\* remaining text is not a valid number or the input is neither a number nor
\* a string, and every pair it returns has a finite magnitude and a unit that
\* is C or F.
C15_FailsOrReturnsFinitePair ==
    /\ C15_InvalidInputFails
    /\ (outcome.op \in {"parse_temperature_value", "parse_step_resolution"}
          /\ outcome.r.exc = "")
       => FiniteMagnitude(outcome.r.val) /\ outcome.r.unit \in {"C", "F"}

\* C15 happens: "infC" is parsed, and the magnitude returned is infinite.
C15_InfinityReturned ==
    /\ outcome.op = "parse_temperature_value"
    /\ outcome.value = PyStr(<<"i", "n", "f", "C">>)
    /\ outcome.r = [exc |-> "", val |-> <<1, 0>>, unit |-> "C"]

\* C15 happens: the bare suffix "F" and the empty string fail to parse.
C15_BareSuffixFails ==
    /\ outcome.op = "parse_temperature_value"
    /\ outcome.value \in {PyStr(<<"F">>), PyStr(<<>>)}
    /\ outcome.r.exc = "ValueError"

\* ---------------------------------------------------------------------------
\* The 24 hour forecast.

\* The offset from solar noon k hours after the update's clock reading, in
\* minutes, in -720..720.
SampleMinutes(k) ==
    LET d == ((outcome.now1 + 60 * k) % 1440)
             - (60 * outcome.solar_noon.hour + outcome.solar_noon.minute)
    IN  IF d > 720 THEN d - 1440 ELSE IF d < -720 THEN d + 1440 ELSE d

\* The last call was an update of a 24 hour forecast sensor, and it returned.
Forecast24hUpdated ==
    UpdatedOk(SENSOR_FORECAST_24H) \/ UpdatedOk(SENSOR_FORECAST_24H_STEP)

\* C16: the 24 hour forecast is exactly 24 records with the fields time,
\* temperature and hours_from_noon; record k is dated at the clock reading
\* plus k hours, to the minute; its hours_from_noon is the offset of that
\* time from solar noon normalised into -12..12 (to two decimals), so that
\* the offsets of consecutive records differ by +1 or by -23.
C16_ForecastIsTwentyFourHourlyRecords ==
    Forecast24hUpdated
    => /\ DOMAIN Reading = 1..24
       /\ \A k \in 1..24 :
            /\ DOMAIN Reading[k] = {"time", "temperature", "hours_from_noon"}
            /\ Reading[k].time = outcome.now1 + 60 * (k - 1)
            /\ Reading[k].hours_from_noon = PyRoundTo(Rat(SampleMinutes(k - 1), 60), 100)
       /\ \A k \in 1..23 :
            RSub(Reading[k + 1].hours_from_noon, Reading[k].hours_from_noon)
                \in {Int2R(1), Int2R(-23)}

\* C16 happens: a forecast made at 06:17 with solar noon at 14:30 is dated
\* at 17 minutes past each hour, and its offsets wrap from +11.78 to -11.22.
C16_ForecastOffTheHourWraps ==
    /\ Forecast24hUpdated
    /\ outcome.now1 % 1440 = 377
    /\ outcome.solar_noon = Time(14, 30)
    /\ Reading[2].time % 60 = 17
    /\ \E k \in 1..23 :
          /\ Reading[k].hours_from_noon = Rat(1178, 100)
          /\ Reading[k + 1].hours_from_noon = Rat(-1122, 100)

\* ---------------------------------------------------------------------------
\* The 7 day forecast.

\* The last call was an update of a 7 day forecast sensor, and it returned.
Forecast7dUpdated ==
    UpdatedOk(SENSOR_FORECAST_7D) \/ UpdatedOk(SENSOR_FORECAST_7D_STEP)

\* A configured limit in the display unit, to one decimal.
DisplayLimit(value) ==
    PyRoundTo(convert_from_celsius(LiteralCelsius(value), TheConfig.unit_system), 10)

\* C17: for every valid configuration each of the 7 daily records has
\* min <= max.
C17_DailyMinAtMostMax ==
    (Forecast7dUpdated /\ ValidRange(TheConfig) /\ PositiveSpread(TheConfig))
    => /\ DOMAIN Reading = 1..7
       /\ \A k \in 1..7 : RLe(Reading[k].min, Reading[k].max)

\* C17: for every valid configuration each of the 7 daily records has
\* min <= max, its min being the lowest and its max the highest temperature
\* of the wave: the configured minimum and maximum in the display unit.
C17_DailyMinAndMaxAreWaveExtremes ==
    /\ C17_DailyMinAtMostMax
    /\ (UpdatedOk(SENSOR_FORECAST_7D) /\ ValidRange(TheConfig) /\ PositiveSpread(TheConfig))
       => \A k \in 1..7 :
            /\ Reading[k].min = DisplayLimit(TheConfig.min_temp)
            /\ Reading[k].max = DisplayLimit(TheConfig.max_temp)

\* C17 happens: with the limits 20C and 30C, Celsius display and spread 2,
\* every daily record has min 30.0 and max 25.0.
C17_DailyMinExceedsMax ==
    /\ UpdatedOk(SENSOR_FORECAST_7D)
    /\ TheConfig.min_temp = PyStr(<<"2", "0", "C">>)
    /\ TheConfig.max_temp = PyStr(<<"3", "0", "C">>)
    /\ TheConfig.unit_system = "metric"
    /\ TheSensor.wave_spread = Int2R(2)
    /\ \A k \in 1..7 : Reading[k].min = Int2R(30) /\ Reading[k].max = Int2R(25)

\* C17 happens: with the same limits and spread 1, min and max are both the
\* midpoint 25.0.
C17_DailyMinAndMaxAreMidpoint ==
    /\ UpdatedOk(SENSOR_FORECAST_7D)
    /\ TheConfig.min_temp = PyStr(<<"2", "0", "C">>)
    /\ TheConfig.max_temp = PyStr(<<"3", "0", "C">>)
    /\ TheConfig.unit_system = "metric"
    /\ TheSensor.wave_spread = Int2R(1)
    /\ \A k \in 1..7 : Reading[k].min = Int2R(25) /\ Reading[k].max = Int2R(25)

\* ---------------------------------------------------------------------------
\* The visual frame.

\* The sine of the wave at the offset h for the sensor's spread.
SineAt(h) == SinPi(RDiv(Int2R(h), RMulInt(TheSensor.wave_spread, 12)))
\* The temperature of the wave at the offset h between the stored limits.
StoredWaveAt(h) ==
    RAdd(TheSensor.min_temp_c,
         RMul(RSub(TheSensor.max_temp_c, TheSensor.min_temp_c),
              RDivInt(RAddInt(SineAt(h), 1), 2)))
Points == Reading.points

WaveInsideDay ==
    /\ outcome.op = "wave"
    /\ RLt(TheSensor.min_temp_c, TheSensor.max_temp_c)
    /\ RGtInt(TheSensor.wave_spread, 0)
    /\ RGeInt(outcome.hours_from_noon, -12)
    /\ RLeInt(outcome.hours_from_noon, 12)

\* C19: for min < max, wave_spread > 0 and every offset in [-12, 12] the
\* wave temperature in Celsius, not stepped, lies in [min_temp_c, max_temp_c].
C19_WaveWithinLimits ==
    WaveInsideDay
    => /\ outcome.r.exc = ""
       /\ RLe(TheSensor.min_temp_c, outcome.r.val)
       /\ RLe(outcome.r.val, TheSensor.max_temp_c)

\* C19 happens: with spread 0.5 the wave over -5 .. 30 is at its lower limit
\* nine hours after noon, where the sine is -1.
C19_LowerLimitTouched ==
    /\ WaveInsideDay
    /\ TheSensor.wave_spread = Rat(1, 2)
    /\ TheSensor.min_temp_c = Int2R(-5)
    /\ TheSensor.max_temp_c = Int2R(30)
    /\ outcome.hours_from_noon = Int2R(9)
    /\ outcome.r.val = Int2R(-5)

\* ---------------------------------------------------------------------------
\* The effect of the spread.

Midpoint == RDivInt(RAdd(TheSensor.min_temp_c, TheSensor.max_temp_c), 2)
\* The wave at the offset of the last call for the same limits and spread 1.
AtSpreadOne ==
    wave_temp_c([TheSensor EXCEPT !.wave_spread = Int2R(1)], outcome.hours_from_noon).val
\* The wave of the last call is closer to the midpoint than the wave of
\* spread 1 at the same offset.
CloserThanSpreadOne ==
    RLt(Distance(outcome.r.val, Midpoint), Distance(AtSpreadOne, Midpoint))

\* C20 as stated: for min < max, every offset h in [-12, 12] other than 0 and
\* every spread greater than 1, the wave is closer to the midpoint than the
\* wave of spread 1 at the same h.
C20_WiderSpreadCloserAtEveryOffset ==
    (WaveInsideDay /\ RGtInt(TheSensor.wave_spread, 1)
        /\ ~RIsZero(outcome.hours_from_noon))
    => CloserThanSpreadOne

\* C20: for min < max, every offset h with 0 < |h| <= 6 and every spread
\* greater than 1, the wave is closer to the midpoint than the wave of
\* spread 1 at the same h; at h = 3, spread 1.5 is closer to the midpoint
\* than spread 1 and spread 0.7 gives a higher temperature than spread 1.
C20_WiderSpreadCloserWithinSixHours ==
    /\ (WaveInsideDay /\ RGtInt(TheSensor.wave_spread, 1)
          /\ ~RIsZero(outcome.hours_from_noon)
          /\ RGeInt(outcome.hours_from_noon, -6) /\ RLeInt(outcome.hours_from_noon, 6))
       => CloserThanSpreadOne
    /\ (WaveInsideDay /\ outcome.hours_from_noon = Int2R(3)
          /\ TheSensor.wave_spread = Rat(7, 10))
       => RLt(AtSpreadOne, outcome.r.val)

\* C20 happens: three hours after noon the wave of spread 1.5 over 20 .. 30
\* is at 27.5, closer to 25 than the wave of spread 1.
C20_TestedCaseCloser ==
    /\ WaveInsideDay
    /\ TheSensor.wave_spread = Rat(3, 2)
    /\ TheSensor.min_temp_c = Int2R(20)
    /\ TheSensor.max_temp_c = Int2R(30)
    /\ outcome.hours_from_noon = Int2R(3)
    /\ outcome.r.val = Rat(55, 2)
    /\ CloserThanSpreadOne

\* C20 fails as stated: nine hours after noon the wave of spread 1.5 is at
\* its maximum, farther from the midpoint than the wave of spread 1.
C20_WiderSpreadFartherAtNineHours ==
    /\ WaveInsideDay
    /\ TheSensor.wave_spread = Rat(3, 2)
    /\ outcome.hours_from_noon = Int2R(9)
    /\ outcome.r.val = TheSensor.max_temp_c
    /\ ~CloserThanSpreadOne

\* ---------------------------------------------------------------------------
\* Sensors side by side.

\* The step is an async_update of sensor i.
UpdateStepOf(i) == outcome' # outcome /\ outcome'.op = "update" /\ outcome'.id = i

\* What an update of a sensor freshly constructed from entry i's
\* configuration gives for the clock readings and the sun of the step.
FreshValue(i) ==
    update_value(sensor_init(slots[i].config, slots[i].key).obj,
                 outcome'.now1, outcome'.now2,
                 get_solar_noon(sun, slots[i].config.solar_noon_override).time)

\* An update of sensor i leaves every other sensor as it was, leaves the
\* entries as they were, changes nothing of sensor i but its native value,
\* and writes the value that follows from i's configuration, the clock and
\* the sun alone.
UpdateFrame(i) ==
    /\ \A j \in DOMAIN sensors \ {i} : sensors'[j] = sensors[j]
    /\ slots' = slots
    /\ [sensors'[i] EXCEPT !.native_value = sensors[i].native_value] = sensors[i]
    /\ outcome'.exc = "" => sensors'[i].native_value = FreshValue(i).val
    /\ outcome'.exc # "" => sensors'[i] = sensors[i]

\* C21: under any interleaving of updates of several sensors, an update of
\* one sensor changes only that sensor's own native value; its parsed
\* configuration and every other sensor's value and configuration are left
\* unchanged, and the value written depends only on that sensor's
\* configuration, the clock and the solar snapshot of the call.
C21_UpdateTouchesOnlyItsSensor ==
    [][\A i \in DOMAIN slots : UpdateStepOf(i) => UpdateFrame(i)]_vars

\* C21 happens: sensor 2 has just been updated while sensor 1, of another
\* configuration, still holds the different value of its own earlier update.
C21_TwoSensorsHoldOwnValues ==
    /\ DOMAIN sensors = {1, 2}
    /\ outcome.op = "update" /\ outcome.id = 2 /\ outcome.exc = ""
    /\ sensors[1].exists /\ sensors[2].exists
    /\ sensors[1].key = SENSOR_CURRENT /\ sensors[2].key = SENSOR_CURRENT
    /\ slots[1].config # slots[2].config
    /\ sensors[1].native_value.kind = "float" /\ sensors[2].native_value.kind = "float"
    /\ sensors[1].native_value # sensors[2].native_value

\* ---------------------------------------------------------------------------
\* The flows.

\* The submitted minimum is below the submitted maximum, both parsed and
\* converted to Celsius.
SubmissionValid(d) ==
    /\ parse_temperature_value(d.min_temp).exc = ""
    /\ parse_temperature_value(d.max_temp).exc = ""
    /\ RLt(LiteralCelsius(d.min_temp), LiteralCelsius(d.max_temp))
FlowStepped == outcome.op \in {"step_user", "step_init"} /\ outcome.input.t = "dict"

\* C22: the user step and the options step accept a submission only when
\* the submitted minimum, parsed and converted to Celsius, is strictly less
\* than the submitted maximum; otherwise they show the form again with the
\* error min_max_invalid and create or store nothing.
C22_FlowsAcceptOnlyValidRange ==
    FlowStepped
    => IF SubmissionValid(outcome.input.d)
       THEN outcome.r.type \in {"create_entry", "form"}
       ELSE outcome.r.type = "form" /\ outcome.r.errors = "min_max_invalid"

\* C22 happens: the user step creates an entry for min 30C and max 5C,
\* because the string "30C" sorts before "5C".
C22_UserStepAcceptsInvertedRange ==
    /\ outcome.op = "step_user"
    /\ outcome.input.t = "dict"
    /\ outcome.input.d.min_temp = PyStr(<<"3", "0", "C">>)
    /\ outcome.input.d.max_temp = PyStr(<<"5", "C">>)
    /\ outcome.r.type = "create_entry"
    /\ slots[1].created /\ slots[1].config.min_temp = PyStr(<<"3", "0", "C">>)

\* C22 happens: the options step stores min 20C and max 50F, which is 10 C,
\* because 20 < 50.
C22_OptionsStepAcceptsMixedUnits ==
    /\ outcome.op = "step_init"
    /\ outcome.input.t = "dict"
    /\ outcome.input.d.min_temp = PyStr(<<"2", "0", "C">>)
    /\ outcome.input.d.max_temp = PyStr(<<"5", "0", "F">>)
    /\ outcome.r.type = "create_entry"
    /\ slots[1].options.max_temp = PyStr(<<"5", "0", "F">>)

\* C22 happens: the options step raises ValueError for a minimum that is not
\* a number, instead of showing the form.
C22_OptionsStepRaises ==
    /\ outcome.op = "step_init"
    /\ outcome.input.t = "dict"
    /\ outcome.input.d.min_temp = PyStr(<<"x">>)
    /\ outcome.r.type = "raise" /\ outcome.r.exc = "ValueError"

\* The value an update gives for a sensor constructed from the settings c,
\* at the clock readings of the last call.
ValueFrom(c) ==
    update_value(sensor_init(c, slots[1].key).obj, outcome.now1, outcome.now2,
                 get_solar_noon(sun, ConfigGet(c.solar_noon_override, PyNone)).time).val
\* The options flow has stored options for the entry.
OptionsAccepted == slots[1].options # NoOptions

\* C23: after the options flow has accepted new values for an entry, every
\* update of the entry's sensor computes its value from the new values, not
\* from the values the entry was created with.
C23_UpdateUsesAcceptedOptions ==
    (UpdatedOk(SENSOR_CURRENT) /\ OptionsAccepted)
    => TheSensor.native_value = ValueFrom(slots[1].options)

\* C23 happens: the entry was created with 20C .. 30C, the options flow has
\* stored 20C .. 50F and spread 1.5, and the update that follows publishes
\* the value of the creation settings, which is not the value of the options.
C23_UpdateUsesCreationValues ==
    /\ UpdatedOk(SENSOR_CURRENT)
    /\ slots[1].config.max_temp = PyStr(<<"3", "0", "C">>)
    /\ slots[1].options.max_temp = PyStr(<<"5", "0", "F">>)
    /\ slots[1].options.wave_spread = PyNum(Rat(3, 2))
    /\ TheSensor.native_value = ValueFrom(slots[1].config)
    /\ TheSensor.native_value # ValueFrom(slots[1].options)

\* ---------------------------------------------------------------------------
\* The rising flag and the wave.

\* The sine of the wave m minutes from solar noon for the sensor's spread.
SineAtMinute(m) == SinPi(RDiv(Int2R(m), RMulInt(TheSensor.wave_spread, 720)))
\* The wave is not decreasing at the offset of the last call: a minute later
\* it is at least as high.
WaveNotDecreasing ==
    RLe(SineAtMinute(MinutesFromNoon), SineAtMinute(MinutesFromNoon + 1))

\* C24: for every spread in 0.1 .. 5.0 and every offset h in [-12, 12),
\* is_temperature_rising is true exactly when the wave
\* sin(pi * h / (12 * spread)) is not decreasing at h.
C24_RisingAgreesWithWave ==
    (outcome.op = "is_temperature_rising" /\ MinutesFromNoon < 720)
    => (outcome.r <=> WaveNotDecreasing)

\* C24 happens: with spread 0.5 the wave has a period of 12 hours and is
\* climbing ten hours after solar noon, and is_temperature_rising answers
\* false.
C24_ClimbingWaveReportedFalling ==
    /\ outcome.op = "is_temperature_rising"
    /\ TheSensor.wave_spread = Rat(1, 2)
    /\ MinutesFromNoon = 600
    /\ WaveNotDecreasing
    /\ outcome.r = FALSE

\* C24 happens: with spread 1 the wave is at its crest six hours after solar
\* noon and lower a minute later, and is_temperature_rising answers true.
C24_CrestReportedRising ==
    /\ outcome.op = "is_temperature_rising"
    /\ TheSensor.wave_spread = Int2R(1)
    /\ MinutesFromNoon = 360
    /\ ~WaveNotDecreasing
    /\ outcome.r = TRUE

\* C24, for spreads of 1 and more away from the crest: the answer agrees
\* with the wave.
C24_AgreesForWideSpreadsOffCrest ==
    (outcome.op = "is_temperature_rising" /\ MinutesFromNoon < 720
        /\ RGeInt(TheSensor.wave_spread, 1)
        /\ Int2R(MinutesFromNoon) # RMulInt(TheSensor.wave_spread, 360))
    => (outcome.r <=> WaveNotDecreasing)

----------------------------------------------------------------------------
(* C25 *)

Summarised == outcome.op = "simple_visualization"

\* C25: the is_rising flag generate_simple_visualization produces from a
\* visual frame equals what is_temperature_rising answers for the frame's
\* hours_from_noon and the sensor's wave_spread.
C25_SummaryFlagIsRisingWindow ==
    Summarised =>
        outcome.r.is_rising
            = rising_window(outcome.r.current_hours_from_noon,
                            RMulInt(TheSensor.wave_spread, 6))

\* Three hours after solar noon with spread 1 the summary says falling while
\* is_temperature_rising says rising.
C25_AfternoonSummarisedFalling ==
    /\ Summarised
    /\ TheSensor.wave_spread = Int2R(1)
    /\ outcome.r.current_hours_from_noon = Int2R(3)
    /\ ~outcome.r.is_rising
    /\ rising_window(Int2R(3), Int2R(6))

\* Nine hours before solar noon with spread 1 the summary says rising while
\* is_temperature_rising says falling.
C25_NightSummarisedRising ==
    /\ Summarised
    /\ TheSensor.wave_spread = Int2R(1)
    /\ outcome.r.current_hours_from_noon = Int2R(-9)
    /\ outcome.r.is_rising
    /\ ~rising_window(Int2R(-9), Int2R(6))

\* The two agree in the rising hours before solar noon and once the window
\* has closed after it.
BeforeNoonInWindow ==
    /\ RLtInt(outcome.r.current_hours_from_noon, 0)
    /\ RLe(RNeg(RMulInt(TheSensor.wave_spread, 6)), outcome.r.current_hours_from_noon)
AfterWindow ==
    RLt(RMulInt(TheSensor.wave_spread, 6), outcome.r.current_hours_from_noon)
C25_AgreesOutsideAfternoonWindow ==
    Summarised /\ (BeforeNoonInWindow \/ AfterWindow) =>
        outcome.r.is_rising
            = rising_window(outcome.r.current_hours_from_noon,
                            RMulInt(TheSensor.wave_spread, 6))

----------------------------------------------------------------------------
(* C26 *)

FrameBuilt ==
    /\ outcome.op = "update"
    /\ outcome.exc = ""
    /\ TheSensor.exists
    /\ TheSensor.key = SENSOR_VISUAL
    /\ TheSensor.native_value.kind = "visual"

\* The marker of a frame whose offset and temperature both come from the first
\* reading of the clock of the update.
MarkerAtFirstReading ==
    visual_current(TheSensor,
                   get_current_solar_position(outcome.now1, outcome.solar_noon),
                   calculate_current_temperature(TheSensor, outcome.now1,
                                                 outcome.solar_noon, FALSE).val)

\* C26: in every visual frame the marker's temp and y are the wave temperature
\* at the hours_from_noon that its x shows, also when the clock moves on to
\* the next minute between the clock readings of one frame.
C26_MarkerIsConsistent ==
    FrameBuilt => TheSensor.native_value.val.current_position = MarkerAtFirstReading

\* The clock moved between the two readings: x shows the earlier minute and y
\* the temperature of the later one.
C26_MarkerMixesTwoReadings ==
    /\ FrameBuilt
    /\ outcome.now2 = outcome.now1 + 1
    /\ TheSensor.native_value.val.current_position.x = MarkerAtFirstReading.x
    /\ TheSensor.native_value.val.current_position.y # MarkerAtFirstReading.y

\* With both readings in the same minute the marker is consistent.
C26_ConsistentWithinOneMinute ==
    FrameBuilt /\ outcome.now2 = outcome.now1
        => TheSensor.native_value.val.current_position = MarkerAtFirstReading

----------------------------------------------------------------------------
(* C27 *)

MinuteOfDay(t) == 60 * t.hour + t.minute

\* The sun is up and reports today's sunset and the next day's sunrise, and
\* no override is configured.
LiveSunUp ==
    /\ outcome.op = "get_solar_noon"
    /\ ~Truthy(TheSensor.solar_noon_override)
    /\ sun.state = "above_horizon"
    /\ sun.next_setting.t = "ts"
    /\ sun.next_rising.t = "ts"
    /\ sun.next_setting.m \div 1440 = now \div 1440
    /\ sun.next_rising.m \div 1440 = now \div 1440 + 1

\* C27: with the sun up, reporting today's sunset and tomorrow's sunrise,
\* get_solar_noon returns a time of day between the sunrise and the sunset
\* times of day.
C27_SolarNoonWithinDaylight ==
    LiveSunUp =>
        /\ outcome.r.exc = ""
        /\ MinuteOfDay(TimeOfDay(sun.next_rising.m)) <= MinuteOfDay(outcome.r.time)
        /\ MinuteOfDay(outcome.r.time) <= MinuteOfDay(TimeOfDay(sun.next_setting.m))

\* Sunset today 19:00 and sunrise tomorrow 07:00 give 01:00, in the night.
C27_SolarNoonInTheNight ==
    /\ LiveSunUp
    /\ sun.next_setting.m = 1440 + 1140
    /\ sun.next_rising.m = 2880 + 420
    /\ outcome.r = [exc |-> "", time |-> Time(1, 0)]

----------------------------------------------------------------------------
(* C28 *)

\* C28: hass.data[DOMAIN] holds a record for an entry exactly when the entry
\* is loaded; a failed platform unload leaves the record in place.
C28_RecordExactlyWhenLoaded ==
    \A i \in DOMAIN slots : slots[i].stored = Loaded(i)

\* A failed unload left the record of a still loaded entry, a successful one
\* of the other entry removed its record.
C28_FailedUnloadKeepsRecord ==
    /\ outcome.op = "unload_entry"
    /\ ~outcome.unload_ok
    /\ slots[outcome.id].stored
    /\ Loaded(outcome.id)
    /\ \E j \in DOMAIN slots : j # outcome.id /\ ~slots[j].stored /\ ~Loaded(j)
                                  /\ slots[j].forwards = 0

----------------------------------------------------------------------------
(* C29 *)

\* C29: the platforms of an entry are never forwarded for setup a second time
\* while they are still loaded: between two platform setups of an entry lies
\* a successful platform unload, also when the unload step of
\* async_reload_entry fails.
C29_PlatformsForwardedOncePerLoad ==
    \A i \in DOMAIN slots : slots[i].forwards <= 1

\* async_reload_entry whose unload failed has forwarded the platforms of the
\* still loaded entry a second time.
C29_ReloadForwardsLoadedPlatforms ==
    /\ outcome.op = "reload_entry"
    /\ ~outcome.unload_ok
    /\ Loaded(outcome.id)
    /\ slots[outcome.id].forwards = 2

\* Without async_reload_entry, set-ups and unloads alternate.
C29_SetupAndUnloadAlternate ==
    [][(\A i \in DOMAIN slots : slots[i].forwards <= 1) /\ outcome'.op # "reload_entry"
          => \A i \in DOMAIN slots : slots'[i].forwards <= 1]_vars

----------------------------------------------------------------------------
(* C30 *)

BinarySensorSetUp == outcome.op = "setup_binary_sensor"

\* C30: constructing the rising/falling sensor and updating it completes
\* without error, the rising state being read only after the solar-noon
\* override and the wave spread are initialised, and afterwards its icon is
\* the up arrow exactly when is_on is true.
C30_BinarySensorCompletes ==
    BinarySensorSetUp =>
        /\ outcome.exc = ""
        /\ TheSensor.exists
        /\ (TheSensor.icon = "mdi:arrow-up")
               = binary_is_rising(TheSensor, Hass(now, sun)).val

\* The constructor raised AttributeError and left no entity.
C30_ConstructorRaises ==
    /\ BinarySensorSetUp
    /\ outcome.exc = "AttributeError"
    /\ outcome.stage = "init"
    /\ ~TheSensor.exists
    /\ binary_sensor_init(slots[1].config).exc = "AttributeError"

====
